---- MODULE Spec2Model ----
(***************************************************************************)
(* A model of the SQL migration generator (@famgia/omnify-sql):            *)
(* dialect type catalog, SQL formatter, table builder, pivot builder,      *)
(* compatibility validator and migration orchestrator.                     *)
(*                                                                         *)
(* Text.  A JavaScript string is modelled as a sequence of tokens.  Every  *)
(* string literal (or literal piece of a template string) of the source    *)
(* is one token; an input string (an entity name, a property name, an      *)
(* enum value) is a sequence of one-character tokens; a number rendered    *)
(* by String(n) is its sequence of decimal digits.  Concatenation is \o.   *)
(*                                                                         *)
(* Optional values.  A value that may be undefined is a sequence of        *)
(* length 0 (undefined) or 1 (defined): x ?? d is OrElse(x, d).            *)
(***************************************************************************)
EXTENDS Integers, Sequences, FiniteSets, TLC

(***************************************************************************)
(* JavaScript built-ins used by the source                                 *)
(***************************************************************************)
None == <<>>
Some(v) == <<v>>
IsDefined(o) == o # <<>>
OrElse(o, d) == IF o = <<>> THEN d ELSE o[1]

UpperChars == <<"A","B","C","D","E","F","G","H","I","J","K","L","M",
                "N","O","P","Q","R","S","T","U","V","W","X","Y","Z">>
LowerChars == <<"a","b","c","d","e","f","g","h","i","j","k","l","m",
                "n","o","p","q","r","s","t","u","v","w","x","y","z">>
DigitChars == <<"0","1","2","3","4","5","6","7","8","9">>

\* /[A-Z]/
IsUpper(c) == \E i \in 1..Len(UpperChars) : UpperChars[i] = c

\* letter.toLowerCase()
toLowerCase(c) ==
  IF IsUpper(c)
    THEN LowerChars[CHOOSE i \in 1..Len(UpperChars) : UpperChars[i] = c]
    ELSE c

\* UTF-16 code unit order of the characters the model uses:
\* digits < capitals < '_' < small letters
CodeOrder == DigitChars \o UpperChars \o <<"_">> \o LowerChars
CharCode(c) == CHOOSE i \in 1..Len(CodeOrder) : CodeOrder[i] = c

\* a < b in the order Array.prototype.sort() uses for strings
RECURSIVE StrLess(_, _)
StrLess(a, b) ==
  IF b = <<>> THEN FALSE
  ELSE IF a = <<>> THEN TRUE
  ELSE IF Head(a) = Head(b) THEN StrLess(Tail(a), Tail(b))
  ELSE CharCode(Head(a)) < CharCode(Head(b))

\* str.endsWith(suffix)
endsWith(str, suffix) ==
  /\ Len(str) >= Len(suffix)
  /\ SubSeq(str, Len(str) - Len(suffix) + 1, Len(str)) = suffix

\* String(n) for an integer n >= 0
RECURSIVE NumToText(_)
NumToText(n) ==
  IF n < 10 THEN <<DigitChars[n + 1]>>
  ELSE NumToText(n \div 10) \o <<DigitChars[(n % 10) + 1]>>

\* str.padStart(width, '0')
RECURSIVE padStart(_, _)
padStart(str, width) ==
  IF Len(str) >= width THEN str ELSE padStart(<<"0">> \o str, width)

\* parts.join(sep)
RECURSIVE Join(_, _)
Join(parts, sep) ==
  IF parts = <<>> THEN <<>>
  ELSE IF Len(parts) = 1 THEN parts[1]
  ELSE parts[1] \o sep \o Join(Tail(parts), sep)

\* array.includes(x) / text.includes(token)
Includes(s, x) == \E i \in 1..Len(s) : s[i] = x

(***************************************************************************)
(* schema-builder.ts: naming                                               *)
(***************************************************************************)
RECURSIVE SnakeReplace(_)
SnakeReplace(str) ==
  IF str = <<>> THEN <<>>
  ELSE (IF IsUpper(Head(str)) THEN <<"_", toLowerCase(Head(str))>>
                              ELSE <<Head(str)>>) \o SnakeReplace(Tail(str))

\* .replace(/^_/, ""): drop one leading underscore
DropLeadingUnderscore(r) == IF r # <<>> /\ r[1] = "_" THEN Tail(r) ELSE r

toSnakeCase(str) == DropLeadingUnderscore(SnakeReplace(str))

\* The pluralisation of toTableName, on the snake-cased name
Pluralize(snake) ==
  IF /\ endsWith(snake, <<"y">>)
     /\ ~ \E v \in {<<"a","y">>, <<"e","y">>, <<"o","y">>, <<"u","y">>} :
            endsWith(snake, v)
    THEN SubSeq(snake, 1, Len(snake) - 1) \o <<"i","e","s">>
  ELSE IF \/ endsWith(snake, <<"s">>) \/ endsWith(snake, <<"x">>)
          \/ endsWith(snake, <<"c","h">>) \/ endsWith(snake, <<"s","h">>)
    THEN snake \o <<"e","s">>
  ELSE snake \o <<"s">>

toTableName(schemaName) == Pluralize(toSnakeCase(schemaName))

toColumnName(propertyName) == toSnakeCase(propertyName)

(***************************************************************************)
(* dialects/types.ts: the dialect type catalog                             *)
(***************************************************************************)
Dialects == {"mysql", "postgresql", "sqlite"}

\* One TypeMapping: type, hasLength, defaultLength (optional), hasPrecision
Mapping(type, hasLength, defaultLength, hasPrecision) ==
  [type |-> type, hasLength |-> hasLength, defaultLength |-> defaultLength,
   hasPrecision |-> hasPrecision]
Plain(type) == Mapping(type, FALSE, None, FALSE)

MYSQL_TYPES(t) ==
  CASE t \in {"String", "Email", "Password", "File", "Select"}
         -> Some(Mapping("VARCHAR", TRUE, Some(255), FALSE))
    [] t = "Int" -> Some(Plain("INT"))
    [] t = "BigInt" -> Some(Plain("BIGINT"))
    [] t = "Float" -> Some(Plain("DOUBLE"))
    [] t = "Decimal" -> Some(Mapping("DECIMAL", FALSE, None, TRUE))
    [] t = "Boolean" -> Some(Plain("TINYINT(1)"))
    [] t = "Text" -> Some(Plain("TEXT"))
    [] t = "LongText" -> Some(Plain("LONGTEXT"))
    [] t = "Date" -> Some(Plain("DATE"))
    [] t = "Time" -> Some(Plain("TIME"))
    [] t = "Timestamp" -> Some(Plain("TIMESTAMP"))
    [] t \in {"Json", "MultiFile"} -> Some(Plain("JSON"))
    [] t = "Uuid" -> Some(Plain("CHAR(36)"))
    [] t = "Lookup" -> Some(Plain("BIGINT UNSIGNED"))
    [] t = "Point" -> Some(Plain("POINT"))
    [] t = "Coordinates" -> Some(Plain("DECIMAL(10, 8)"))
    [] OTHER -> None

POSTGRESQL_TYPES(t) ==
  CASE t \in {"String", "Email", "Password", "File", "Select"}
         -> Some(Mapping("VARCHAR", TRUE, Some(255), FALSE))
    [] t = "Int" -> Some(Plain("INTEGER"))
    [] t = "BigInt" -> Some(Plain("BIGINT"))
    [] t = "Float" -> Some(Plain("DOUBLE PRECISION"))
    [] t = "Decimal" -> Some(Mapping("DECIMAL", FALSE, None, TRUE))
    [] t = "Boolean" -> Some(Plain("BOOLEAN"))
    [] t \in {"Text", "LongText"} -> Some(Plain("TEXT"))
    [] t = "Date" -> Some(Plain("DATE"))
    [] t = "Time" -> Some(Plain("TIME"))
    [] t = "Timestamp" -> Some(Plain("TIMESTAMP"))
    [] t \in {"Json", "MultiFile"} -> Some(Plain("JSONB"))
    [] t = "Uuid" -> Some(Plain("UUID"))
    [] t = "Lookup" -> Some(Plain("BIGINT"))
    [] t = "Point" -> Some(Plain("geometry(Point, 4326)"))
    [] t = "Coordinates" -> Some(Plain("DECIMAL(10, 8)"))
    [] OTHER -> None

SQLITE_TYPES(t) ==
  CASE t \in {"String", "Text", "LongText", "Date", "Time", "Timestamp", "Json",
              "Email", "Password", "File", "MultiFile", "Uuid", "Select", "Point"}
         -> Some(Plain("TEXT"))
    [] t \in {"Int", "BigInt", "Boolean", "Lookup"} -> Some(Plain("INTEGER"))
    [] t \in {"Float", "Decimal", "Coordinates"} -> Some(Plain("REAL"))
    [] OTHER -> None

DIALECT_TYPES(dialect, t) ==
  CASE dialect = "mysql" -> MYSQL_TYPES(t)
    [] dialect = "postgresql" -> POSTGRESQL_TYPES(t)
    [] dialect = "sqlite" -> SQLITE_TYPES(t)

\* options: [length, precision, scale], each optional
\* Lines 134-137: the length, where the mapping has one
WithLength(m, options) ==
  IF m.hasLength
    THEN <<m.type, "(">>
           \o NumToText(OrElse(options.length, OrElse(m.defaultLength, 255)))
           \o <<")">>
    ELSE <<m.type>>

\* Lines 140-143: the precision and scale, where the mapping has them
WithPrecision(m, options, type) ==
  IF m.hasPrecision /\ IsDefined(options.precision) /\ options.precision[1] # 0
    THEN type \o <<"(">> \o NumToText(options.precision[1]) \o <<", ">>
              \o NumToText(OrElse(options.scale, 2)) \o <<")">>
    ELSE type

\* Lines 126-145, on the mapping found (optional)
TypeOfMapping(mapping, dialect, options) ==
  IF ~ IsDefined(mapping)
    THEN (IF dialect = "sqlite" THEN <<"TEXT">> ELSE <<"VARCHAR(255)">>)
    ELSE WithPrecision(mapping[1], options, WithLength(mapping[1], options))

getSqlType(omnifyType, dialect, options) ==
  TypeOfMapping(DIALECT_TYPES(dialect, omnifyType), dialect, options)

\* A variant that answers the fall-through type of line 194 for every dialect
PrimaryKeyTypeDefault(idType, dialect) == [type |-> <<"BIGINT">>, autoIncrement |-> TRUE]

getPrimaryKeyType(idType, dialect) ==
  CASE dialect = "mysql" /\ idType = "Int" ->
         [type |-> <<"INT UNSIGNED">>, autoIncrement |-> TRUE]
    [] dialect = "mysql" /\ idType = "BigInt" ->
         [type |-> <<"BIGINT UNSIGNED">>, autoIncrement |-> TRUE]
    [] dialect = "mysql" /\ idType = "Uuid" ->
         [type |-> <<"CHAR(36)">>, autoIncrement |-> FALSE]
    [] dialect = "mysql" /\ idType = "String" ->
         [type |-> <<"VARCHAR(255)">>, autoIncrement |-> FALSE]
    [] dialect = "postgresql" /\ idType = "Int" ->
         [type |-> <<"SERIAL">>, autoIncrement |-> FALSE]
    [] dialect = "postgresql" /\ idType = "BigInt" ->
         [type |-> <<"BIGSERIAL">>, autoIncrement |-> FALSE]
    [] dialect = "postgresql" /\ idType = "Uuid" ->
         [type |-> <<"UUID">>, autoIncrement |-> FALSE]
    [] dialect = "postgresql" /\ idType = "String" ->
         [type |-> <<"VARCHAR(255)">>, autoIncrement |-> FALSE]
    [] dialect = "sqlite" /\ idType \in {"Int", "BigInt"} ->
         [type |-> <<"INTEGER">>, autoIncrement |-> TRUE]
    [] dialect = "sqlite" /\ idType \in {"Uuid", "String"} ->
         [type |-> <<"TEXT">>, autoIncrement |-> FALSE]
    [] OTHER -> [type |-> <<"BIGINT">>, autoIncrement |-> TRUE]

getForeignKeyType(referencedIdType, dialect) ==
  CASE dialect = "mysql" /\ referencedIdType = "Int" -> <<"INT UNSIGNED">>
    [] dialect = "mysql" /\ referencedIdType = "BigInt" -> <<"BIGINT UNSIGNED">>
    [] dialect = "mysql" /\ referencedIdType = "Uuid" -> <<"CHAR(36)">>
    [] dialect = "mysql" /\ referencedIdType = "String" -> <<"VARCHAR(255)">>
    [] dialect = "postgresql" /\ referencedIdType = "Int" -> <<"INTEGER">>
    [] dialect = "postgresql" /\ referencedIdType = "BigInt" -> <<"BIGINT">>
    [] dialect = "postgresql" /\ referencedIdType = "Uuid" -> <<"UUID">>
    [] dialect = "postgresql" /\ referencedIdType = "String" -> <<"VARCHAR(255)">>
    [] dialect = "sqlite" /\ referencedIdType \in {"Int", "BigInt"} -> <<"INTEGER">>
    [] dialect = "sqlite" /\ referencedIdType \in {"Uuid", "String"} -> <<"TEXT">>
    [] OTHER -> <<"BIGINT">>

\* values.map(v => `'${v}'`).join(', ')
QuotedValues(values) ==
  Join([i \in 1..Len(values) |-> <<"'">> \o values[i] \o <<"'">>], <<", ">>)

\* enumName is optional; the result is {type, preStatement?}
getEnumType(values, dialect, enumName) ==
  CASE dialect = "mysql" ->
         [type |-> <<"ENUM(">> \o QuotedValues(values) \o <<")">>,
          preStatement |-> None]
    [] dialect = "postgresql" ->
         LET typeName == OrElse(enumName, <<"enum_type">>)
         IN  [type |-> typeName,
              preStatement |->
                Some(<<"CREATE TYPE ">> \o typeName \o <<" AS ENUM (">>
                     \o QuotedValues(values) \o <<");">>)]
    [] dialect = "sqlite" ->
         [type |-> <<"TEXT">>, preStatement |-> None]

(***************************************************************************)
(* Names are sequences of characters; the literal pieces of the names the  *)
(* source derives are spelled out character by character.                  *)
(***************************************************************************)
NamePiece ==
  [id |-> <<"i","d">>,
   idx |-> <<"i","d","x","_">>,
   fk |-> <<"f","k","_">>,
   us |-> <<"_">>,
   uid |-> <<"_","i","d">>,
   unique |-> <<"_","u","n","i","q","u","e">>,
   utype |-> <<"_","t","y","p","e">>,
   uenum |-> <<"_","e","n","u","m">>,
   latitude |-> <<"_","l","a","t","i","t","u","d","e">>,
   longitude |-> <<"_","l","o","n","g","i","t","u","d","e">>,
   created_at |-> <<"c","r","e","a","t","e","d","_","a","t">>,
   updated_at |-> <<"u","p","d","a","t","e","d","_","a","t">>,
   deleted_at |-> <<"d","e","l","e","t","e","d","_","a","t">>,
   ables |-> <<"a","b","l","e","s">>,
   morphable |-> <<"_","m","o","r","p","h","a","b","l","e">>,
   create |-> <<"c","r","e","a","t","e","_">>,
   drop |-> <<"d","r","o","p","_">>]

(***************************************************************************)
(* The input: a schema collection is an ordered mapping, modelled as a     *)
(* sequence of schemas with pairwise distinct names (the mapping's keys,   *)
(* in Object.entries order).                                               *)
(***************************************************************************)
\* allSchemas[name]
Lookup(allSchemas, name) ==
  IF \E i \in 1..Len(allSchemas) : allSchemas[i].name = name
    THEN Some(allSchemas[CHOOSE i \in 1..Len(allSchemas) : allSchemas[i].name = name])
    ELSE None

\* schema.properties as a sequence (undefined: no property)
PropsOf(schema) == OrElse(schema.properties, <<>>)

\* A variant that takes the identity kind of the default for every target
IdTypeDefault(optSchema) == "BigInt"

\* targetSchema?.options?.idType ?? 'BigInt'
IdTypeOf(optSchema) ==
  IF IsDefined(optSchema) THEN OrElse(optSchema[1].options.idType, "BigInt")
  ELSE "BigInt"

(***************************************************************************)
(* migration/schema-builder.ts: the table builder                          *)
(***************************************************************************)
\* A variant whose columns are never flagged unique
ColumnNeverUnique(name, type, nullable, primaryKey, autoIncrement, unique, unsigned, defaultValue, comment) ==
  [name |-> name, type |-> type, nullable |-> nullable,
   primaryKey |-> primaryKey, autoIncrement |-> autoIncrement,
   unique |-> FALSE, unsigned |-> unsigned,
   defaultValue |-> defaultValue, comment |-> comment]

Column(name, type, nullable, primaryKey, autoIncrement, unique, unsigned, defaultValue, comment) ==
  [name |-> name, type |-> type, nullable |-> nullable,
   primaryKey |-> primaryKey, autoIncrement |-> autoIncrement,
   unique |-> unique, unsigned |-> unsigned,
   defaultValue |-> defaultValue, comment |-> comment]

\* A variant whose id column is not flagged primaryKey
generatePlainId(idType, dialect) ==
  Column(NamePiece.id, getPrimaryKeyType(idType, dialect).type, FALSE, FALSE,
         getPrimaryKeyType(idType, dialect).autoIncrement, FALSE, FALSE, None, None)

generatePrimaryKey(idType, dialect) ==
  LET pkInfo == getPrimaryKeyType(idType, dialect)
  IN  Column(NamePiece.id, pkInfo.type, FALSE, TRUE, pkInfo.autoIncrement, FALSE, FALSE,
             None, None)

TimestampType(dialect) == IF dialect = "sqlite" THEN <<"TEXT">> ELSE <<"TIMESTAMP">>

generateTimestampColumns(dialect) ==
  << Column(NamePiece.created_at, TimestampType(dialect), TRUE, FALSE, FALSE, FALSE, FALSE,
            None, None),
     Column(NamePiece.updated_at, TimestampType(dialect), TRUE, FALSE, FALSE, FALSE, FALSE,
            None, None) >>

generateSoftDeleteColumn(dialect) ==
  Column(NamePiece.deleted_at, TimestampType(dialect), TRUE, FALSE, FALSE, FALSE, FALSE,
         None, None)

\* A variant that gives both columns the type of the latitude
generateLatitudeColumns(name, property, dialect) ==
  LET baseName == toColumnName(name)
      nullable == OrElse(property.nullable, FALSE)
      latType == IF dialect = "sqlite" THEN <<"REAL">> ELSE <<"DECIMAL(10, 8)">>
  IN  << Column(baseName \o NamePiece.latitude, latType, nullable, FALSE, FALSE, FALSE,
                FALSE, None, Some(<<"Latitude for ">> \o name)),
         Column(baseName \o NamePiece.longitude, latType, nullable, FALSE, FALSE, FALSE,
                FALSE, None, Some(<<"Longitude for ">> \o name)) >>

generateCoordinatesColumns(name, property, dialect) ==
  LET baseName == toColumnName(name)
      nullable == OrElse(property.nullable, FALSE)
      latType == IF dialect = "sqlite" THEN <<"REAL">> ELSE <<"DECIMAL(10, 8)">>
      lonType == IF dialect = "sqlite" THEN <<"REAL">> ELSE <<"DECIMAL(11, 8)">>
  IN  << Column(baseName \o NamePiece.latitude, latType, nullable, FALSE, FALSE, FALSE,
                FALSE, None, Some(<<"Latitude for ">> \o name)),
         Column(baseName \o NamePiece.longitude, lonType, nullable, FALSE, FALSE, FALSE,
                FALSE, None, Some(<<"Longitude for ">> \o name)) >>

\* `${value}` of a default value: a string as it is, a boolean as true or
\* false, a number as its digits
DefaultText(d) ==
  CASE d.kind = "string" -> d.s
    [] d.kind = "boolean" ->
         (IF d.b THEN <<"t","r","u","e">> ELSE <<"f","a","l","s","e">>)
    [] d.kind = "number" -> NumToText(d.n)

\* defaultValue of an Enum or Select column (lines 200 and 217)
EnumDefault(property) ==
  IF IsDefined(property.default)
    THEN Some(<<"'">> \o DefaultText(property.default[1]) \o <<"'">>)
    ELSE None

\* defaultValue of a standard column (lines 229-239)
StandardDefault(property, dialect) ==
  IF ~ IsDefined(property.default) THEN None
  ELSE LET d == property.default[1]
       IN  CASE d.kind = "string" -> Some(<<"'">> \o d.s \o <<"'">>)
             [] d.kind = "boolean" ->
                  Some(IF dialect = "postgresql"
                         THEN (IF d.b THEN <<"TRUE">> ELSE <<"FALSE">>)
                         ELSE (IF d.b THEN <<"1">> ELSE <<"0">>))
             [] OTHER -> Some(DefaultText(d))

\* The result is optional: None is the source's null
propertyToColumn(name, property, dialect, allSchemas) ==
  IF property.type = "Association" THEN None
  ELSE IF property.type = "Coordinates" THEN None
  ELSE
    LET columnName == toColumnName(name)
        enumColumn(values) ==
          Some(Column(columnName,
                      getEnumType(values, dialect, Some(columnName \o NamePiece.uenum)).type,
                      OrElse(property.nullable, FALSE), FALSE, FALSE,
                      OrElse(property.unique, FALSE), FALSE,
                      EnumDefault(property), property.displayName))
    IN  IF /\ property.type = "Enum" /\ IsDefined(property.enum)
           /\ property.enum[1].isArray
          THEN enumColumn(property.enum[1].values)
        ELSE IF property.type = "Select" /\ IsDefined(property.options)
          THEN enumColumn(property.options[1])
        ELSE
          Some(Column(columnName,
                      getSqlType(property.type, dialect,
                                 [length |-> property.length,
                                  precision |-> property.precision,
                                  scale |-> property.scale]),
                      OrElse(property.nullable, FALSE), FALSE, FALSE,
                      OrElse(property.unique, FALSE), FALSE,
                      StandardDefault(property, dialect), property.displayName))

\* The result is optional: None is the source's null
generateForeignKey(name, property, schema, dialect, allSchemas) ==
  IF property.type # "Association" THEN None
  ELSE IF OrElse(property.relation, "") \notin {"ManyToOne", "OneToOne"} THEN None
  ELSE IF ~ IsDefined(property.target) \/ property.target = Some(<<>>) THEN None
  ELSE
    LET targetName == property.target[1]
        targetSchema == Lookup(allSchemas, targetName)
        targetIdType == IdTypeOf(targetSchema)
        columnName == toColumnName(name) \o NamePiece.uid
        fkType == getForeignKeyType(targetIdType, dialect)
        constraintName == NamePiece.fk \o toTableName(schema.name) \o NamePiece.us \o columnName
    IN  Some([column |->
                Column(columnName, fkType, OrElse(property.nullable, FALSE),
                       FALSE, FALSE, FALSE,
                       dialect = "mysql" /\ targetIdType \in {"Int", "BigInt"},
                       None, None),
              foreignKey |->
                [name |-> constraintName,
                 columns |-> <<columnName>>,
                 referencesTable |-> toTableName(targetName),
                 referencesColumns |-> <<NamePiece.id>>,
                 onDelete |-> OrElse(property.onDelete, "CASCADE"),
                 onUpdate |-> OrElse(property.onUpdate, "CASCADE")]])

\* useUuid: some name of names is a schema with idType Uuid
AnyUuid(names, allSchemas) ==
  \E i \in 1..Len(names) :
    LET sch == Lookup(allSchemas, names[i])
    IN  IsDefined(sch) /\ sch[1].options.idType = Some("Uuid")

\* The type of a morph id column (lines 362-364 and 685-687)
MorphIdType(useUuid, dialect) ==
  IF useUuid
    THEN (IF dialect = "mysql" THEN <<"CHAR(36)">>
          ELSE IF dialect = "postgresql" THEN <<"UUID">> ELSE <<"TEXT">>)
    ELSE (IF dialect = "mysql" THEN <<"BIGINT UNSIGNED">>
          ELSE IF dialect = "postgresql" THEN <<"BIGINT">> ELSE <<"INTEGER">>)

\* The result is optional: None is the source's null
generatePolymorphicColumns(name, property, dialect, allSchemas) ==
  IF property.type # "Association" THEN None
  ELSE IF \/ property.relation # Some("MorphTo")
          \/ ~ IsDefined(property.targets)
          \/ property.targets = Some(<<>>) THEN None
  ELSE
    LET baseName == toColumnName(name)
        targets == property.targets[1]
        useUuid == AnyUuid(targets, allSchemas)
        enumInfo == getEnumType(targets, dialect,
                                Some(baseName \o NamePiece.utype \o NamePiece.uenum))
    IN  Some([columns |->
                << Column(baseName \o NamePiece.utype, enumInfo.type, TRUE, FALSE, FALSE,
                          FALSE, FALSE, None, None),
                   Column(baseName \o NamePiece.uid, MorphIdType(useUuid, dialect), TRUE,
                          FALSE, FALSE, FALSE, dialect = "mysql" /\ ~ useUuid,
                          None, None) >>,
              index |->
                [name |-> NamePiece.idx \o baseName \o NamePiece.utype \o NamePiece.uid,
                 columns |-> <<baseName \o NamePiece.utype, baseName \o NamePiece.uid>>,
                 unique |-> FALSE, type |-> None]])

\* What one iteration of schemaToTable's property loop (lines 410-455)
\* pushes to columns, foreignKeys and indexes, given the results of the three
\* builders it calls
PushedBy(propName, property, schema, dialect, column, fkResult, morphResult) ==
  IF IsDefined(column)
    THEN [columns |-> column,
          foreignKeys |-> <<>>,
          indexes |->
            IF column[1].unique
              THEN << [name |-> NamePiece.idx \o toTableName(schema.name) \o NamePiece.us
                                  \o column[1].name \o NamePiece.unique,
                       columns |-> <<column[1].name>>,
                       unique |-> TRUE, type |-> None] >>
              ELSE <<>>]
  ELSE IF IsDefined(fkResult)
    THEN [columns |-> <<fkResult[1].column>>,
          foreignKeys |-> <<fkResult[1].foreignKey>>,
          indexes |->
            << [name |-> NamePiece.idx \o toTableName(schema.name) \o NamePiece.us
                            \o fkResult[1].column.name,
                columns |-> <<fkResult[1].column.name>>,
                unique |-> FALSE, type |-> None] >>]
  ELSE IF IsDefined(morphResult)
    THEN [columns |-> morphResult[1].columns,
          foreignKeys |-> <<>>,
          indexes |-> <<morphResult[1].index>>]
  ELSE IF property.type = "Coordinates"
    THEN [columns |-> generateCoordinatesColumns(propName, property, dialect),
          foreignKeys |-> <<>>, indexes |-> <<>>]
  ELSE [columns |-> <<>>, foreignKeys |-> <<>>, indexes |-> <<>>]

PropertyParts(propName, property, schema, dialect, allSchemas) ==
  PushedBy(propName, property, schema, dialect,
           propertyToColumn(propName, property, dialect, allSchemas),
           generateForeignKey(propName, property, schema, dialect, allSchemas),
           generatePolymorphicColumns(propName, property, dialect, allSchemas))

\* The pushes of one iteration followed by those of the later ones
PushAll(here, rest) ==
  [columns |-> here.columns \o rest.columns,
   foreignKeys |-> here.foreignKeys \o rest.foreignKeys,
   indexes |-> here.indexes \o rest.indexes]

\* The property loop, from property i on
RECURSIVE PropertyLoop(_, _, _, _)
PropertyLoop(schema, i, dialect, allSchemas) ==
  IF i > Len(PropsOf(schema))
    THEN [columns |-> <<>>, foreignKeys |-> <<>>, indexes |-> <<>>]
    ELSE PushAll(PropertyParts(PropsOf(schema)[i].name, PropsOf(schema)[i],
                               schema, dialect, allSchemas),
                 PropertyLoop(schema, i + 1, dialect, allSchemas))

\* indexDef.columns.map(c => toColumnName(c))
ColumnNames(cols) == [i \in 1..Len(cols) |-> toColumnName(cols[i])]

\* Custom indexes from schema options (lines 468-479)
CustomIndexes(schema) ==
  LET defs == OrElse(schema.options.indexes, <<>>)
  IN  [i \in 1..Len(defs) |->
        [name |-> OrElse(defs[i].name,
                         NamePiece.idx \o toTableName(schema.name) \o NamePiece.us
                           \o Join(ColumnNames(defs[i].columns), NamePiece.us)),
         columns |-> ColumnNames(defs[i].columns),
         unique |-> OrElse(defs[i].unique, FALSE),
         type |-> defs[i].type]]

\* Unique constraints from schema options (lines 481-496); options.unique is
\* [nested, flat, groups]: a flat column list, or a list of column lists
UniqueConstraintIndexes(schema) ==
  IF ~ IsDefined(schema.options.unique) THEN <<>>
  ELSE
    LET u == schema.options.unique[1]
        uniqueConstraints == IF u.nested THEN u.groups ELSE <<u.flat>>
    IN  [i \in 1..Len(uniqueConstraints) |->
          LET constraintColumns == ColumnNames(uniqueConstraints[i])
          IN  [name |-> NamePiece.idx \o toTableName(schema.name) \o NamePiece.us
                          \o Join(constraintColumns, NamePiece.us) \o NamePiece.unique,
               columns |-> constraintColumns,
               unique |-> TRUE, type |-> None]]

\* resolveLocalizedString of @famgia/omnify-types: a plain string as it is
resolveLocalizedString(displayName) == displayName

\* The table of schemaToTable, given what its property loop pushed
TableWith(schema, dialect, props) ==
  LET pk == IF schema.options.id # Some(FALSE)
              THEN <<generatePrimaryKey(OrElse(schema.options.idType, "BigInt"),
                                        dialect)>>
              ELSE <<>>
      timestamps == IF schema.options.timestamps # Some(FALSE)
                      THEN generateTimestampColumns(dialect) ELSE <<>>
      softDelete == IF schema.options.softDelete = Some(TRUE)
                      THEN <<generateSoftDeleteColumn(dialect)>> ELSE <<>>
  IN  [name |-> toTableName(schema.name),
       columns |-> pk \o props.columns \o timestamps \o softDelete,
       foreignKeys |-> props.foreignKeys,
       indexes |-> props.indexes \o CustomIndexes(schema)
                     \o UniqueConstraintIndexes(schema),
       comment |-> resolveLocalizedString(schema.displayName)]

schemaToTable(schema, allSchemas, options) ==
  TableWith(schema, options.dialect,
            PropertyLoop(schema, 1, options.dialect, allSchemas))

(***************************************************************************)
(* migration/schema-builder.ts: the pivot table builders                   *)
(***************************************************************************)
\* A variant that leaves the two table names in the order source, target
SourceFirstPair(a, b) == <<a, b>>

\* [sourceTable, targetTable].sort()
SortPair(a, b) == IF StrLess(b, a) THEN <<b, a>> ELSE <<a, b>>

\* A non-nullable foreign key column of a pivot table
PivotColumn(name, idType, dialect) ==
  Column(name, getForeignKeyType(idType, dialect), FALSE, FALSE, FALSE, FALSE,
         dialect = "mysql" /\ idType \in {"Int", "BigInt"}, None, None)

PivotForeignKey(pivotName, colName, refTable, onDelete) ==
  [name |-> NamePiece.fk \o pivotName \o NamePiece.us \o colName,
   columns |-> <<colName>>,
   referencesTable |-> refTable,
   referencesColumns |-> <<NamePiece.id>>,
   onDelete |-> OrElse(onDelete, "CASCADE"),
   onUpdate |-> "CASCADE"]

\* joinTable ?? `${tables[0]}_${tables[1]}`
PivotName(joinTable, tables) == OrElse(joinTable, tables[1] \o NamePiece.us \o tables[2])

\* Lines 549-614: the pivot table of the names and id types determined
PivotTable(pivotName, sourceColName, targetColName, sourceTable, targetTable, sourceIdType, targetIdType, dialect, onDelete) ==
  [name |-> pivotName,
   columns |-> << PivotColumn(sourceColName, sourceIdType, dialect),
                  PivotColumn(targetColName, targetIdType, dialect) >>,
   foreignKeys |->
     << PivotForeignKey(pivotName, sourceColName, sourceTable, onDelete),
        PivotForeignKey(pivotName, targetColName, targetTable, onDelete) >>,
   indexes |->
     << [name |-> NamePiece.idx \o pivotName \o NamePiece.unique,
         columns |-> <<sourceColName, targetColName>>,
         unique |-> TRUE, type |-> None],
        [name |-> NamePiece.idx \o pivotName \o NamePiece.us \o sourceColName,
         columns |-> <<sourceColName>>,
         unique |-> FALSE, type |-> None],
        [name |-> NamePiece.idx \o pivotName \o NamePiece.us \o targetColName,
         columns |-> <<targetColName>>,
         unique |-> FALSE, type |-> None] >>,
   comment |-> None]

\* Lines 535-547, on the two table names
PivotOfTables(sourceSchema, property, targetSchema, sourceTable, targetTable, dialect) ==
  PivotTable(PivotName(property.joinTable, SortPair(sourceTable, targetTable)),
             toSnakeCase(sourceSchema.name) \o NamePiece.uid,
             toSnakeCase(property.target[1]) \o NamePiece.uid,
             sourceTable, targetTable,
             OrElse(sourceSchema.options.idType, "BigInt"),
             OrElse(targetSchema.options.idType, "BigInt"),
             dialect, property.onDelete)

\* The result is optional: None is the source's null
generatePivotTable(sourceSchema, propertyName, property, allSchemas, options) ==
  IF property.type # "Association" THEN None
  ELSE IF \/ property.relation # Some("ManyToMany")
          \/ ~ IsDefined(property.target)
          \/ property.target = Some(<<>>) THEN None
  ELSE IF ~ IsDefined(Lookup(allSchemas, property.target[1])) THEN None
  ELSE Some(PivotOfTables(sourceSchema, property,
                          Lookup(allSchemas, property.target[1])[1],
                          toTableName(sourceSchema.name),
                          toTableName(property.target[1]),
                          options.dialect))

\* str.replace(/s$/, '')
DropFinalS(str) ==
  IF endsWith(str, <<"s">>) THEN SubSeq(str, 1, Len(str) - 1) ELSE str

\* schema has a MorphToMany property whose target is target
HasMorphToMany(schema, target) ==
  \E i \in 1..Len(PropsOf(schema)) :
    /\ PropsOf(schema)[i].type = "Association"
    /\ PropsOf(schema)[i].relation = Some("MorphToMany")
    /\ PropsOf(schema)[i].target = Some(target)

\* A variant that does not scan the collection for the other owners
NoOtherOwners(allSchemas, i, sourceName, target) == <<>>

\* The schemas other than the source that have a MorphToMany to target, in
\* the collection's order, from schema i on (lines 660-672)
RECURSIVE OtherMorphOwners(_, _, _, _)
OtherMorphOwners(allSchemas, i, sourceName, target) ==
  IF i > Len(allSchemas) THEN <<>>
  ELSE (IF /\ allSchemas[i].name # sourceName
           /\ HasMorphToMany(allSchemas[i], target)
          THEN <<allSchemas[i].name>> ELSE <<>>)
       \o OtherMorphOwners(allSchemas, i + 1, sourceName, target)

\* Lines 689-752: the morph pivot table of the names and types determined
MorphPivotTable(pivotName, targetColName, targetIdType, targetTable, morphTypeName, morphIdName, enumType, useUuid, dialect, onDelete) ==
  [name |-> pivotName,
   columns |->
     << PivotColumn(targetColName, targetIdType, dialect),
        Column(morphTypeName, enumType, FALSE, FALSE, FALSE, FALSE,
               FALSE, None, None),
        Column(morphIdName, MorphIdType(useUuid, dialect), FALSE, FALSE,
               FALSE, FALSE, dialect = "mysql" /\ ~ useUuid, None, None) >>,
   foreignKeys |->
     << PivotForeignKey(pivotName, targetColName, targetTable, onDelete) >>,
   indexes |->
     << [name |-> NamePiece.idx \o pivotName \o NamePiece.unique,
         columns |-> <<targetColName, morphTypeName, morphIdName>>,
         unique |-> TRUE, type |-> None],
        [name |-> NamePiece.idx \o pivotName \o NamePiece.us \o targetColName,
         columns |-> <<targetColName>>,
         unique |-> FALSE, type |-> None],
        [name |-> NamePiece.idx \o pivotName \o NamePiece.morphable,
         columns |-> <<morphTypeName, morphIdName>>,
         unique |-> FALSE, type |-> None] >>,
   comment |-> None]

\* Lines 674-687, on the morph name, its type column's name and the morph
\* targets collected
MorphPivotOf(property, targetSchema, morphName, morphTypeName, morphTargets, allSchemas, dialect) ==
  MorphPivotTable(OrElse(property.joinTable, morphName),
                  toSnakeCase(property.target[1]) \o NamePiece.uid,
                  OrElse(targetSchema.options.idType, "BigInt"),
                  toTableName(property.target[1]),
                  morphTypeName,
                  DropFinalS(morphName) \o NamePiece.uid,
                  getEnumType(morphTargets, dialect, Some(morphTypeName \o NamePiece.uenum)).type,
                  AnyUuid(morphTargets, allSchemas),
                  dialect, property.onDelete)

\* `${toSnakeCase(target).replace(/s$/, '')}ables`
MorphName(target) == DropFinalS(toSnakeCase(target)) \o NamePiece.ables

\* `${morphName.replace(/s$/, '')}_type`
MorphTypeName(morphName) == DropFinalS(morphName) \o NamePiece.utype

\* Lines 651-672, on the morph name
MorphPivotNamed(sourceSchema, property, allSchemas, morphName, dialect) ==
  MorphPivotOf(property, Lookup(allSchemas, property.target[1])[1], morphName,
               MorphTypeName(morphName),
               <<sourceSchema.name>>
                 \o OtherMorphOwners(allSchemas, 1, sourceSchema.name,
                                     property.target[1]),
               allSchemas, dialect)

\* The result is optional: None is the source's null
generateMorphPivotTable(sourceSchema, propertyName, property, allSchemas, options) ==
  IF property.type # "Association" THEN None
  ELSE IF \/ property.relation # Some("MorphToMany")
          \/ ~ IsDefined(property.target)
          \/ property.target = Some(<<>>) THEN None
  ELSE IF ~ IsDefined(Lookup(allSchemas, property.target[1])) THEN None
  ELSE Some(MorphPivotNamed(sourceSchema, property, allSchemas,
                            MorphName(property.target[1]), options.dialect))

(***************************************************************************)
(* dialects/formatter.ts: the SQL text formatter                           *)
(***************************************************************************)
\* The backtick character (a TLA+ string cannot hold it)
Backtick == "<backtick>"

quoteIdentifier(name, dialect) ==
  CASE dialect = "mysql" -> <<Backtick>> \o name \o <<Backtick>>
    [] dialect = "postgresql" -> <<"\"">> \o name \o <<"\"">>
    [] dialect = "sqlite" -> <<"\"">> \o name \o <<"\"">>

\* value.replace: every single quote of value is doubled
RECURSIVE DoubleQuotes(_)
DoubleQuotes(value) ==
  IF value = <<>> THEN <<>>
  ELSE (IF Head(value) = "'" THEN <<"'", "'">> ELSE <<Head(value)>>)
       \o DoubleQuotes(Tail(value))

quoteString(value) == <<"'">> \o DoubleQuotes(value) \o <<"'">>

\* column.type.includes('UNSIGNED'): the catalog's types that spell UNSIGNED
TypeIncludesUnsigned(type) ==
  \E i \in 1..Len(type) : type[i] \in {"INT UNSIGNED", "BIGINT UNSIGNED"}

formatColumn(column, dialect) ==
  LET unsignedPart ==
        IF dialect = "mysql" /\ column.unsigned /\ ~ TypeIncludesUnsigned(column.type)
          THEN << <<"UNSIGNED">> >> ELSE <<>>
      nullPart ==
        IF ~ column.nullable /\ ~ column.primaryKey THEN << <<"NOT NULL">> >>
        ELSE IF column.nullable THEN << <<"NULL">> >>
        ELSE <<>>
      autoPart ==
        IF column.autoIncrement /\ dialect = "mysql"
          THEN << <<"AUTO_INCREMENT">> >> ELSE <<>>
      pkPart ==
        IF column.primaryKey
          THEN << <<"PRIMARY KEY">> >>
                 \o (IF dialect = "sqlite" /\ column.autoIncrement
                       THEN << <<"AUTOINCREMENT">> >> ELSE <<>>)
          ELSE <<>>
      uniquePart ==
        IF column.unique /\ ~ column.primaryKey THEN << <<"UNIQUE">> >> ELSE <<>>
      defaultPart ==
        IF IsDefined(column.defaultValue)
          THEN << <<"DEFAULT ">> \o column.defaultValue[1] >> ELSE <<>>
      commentPart ==
        IF IsDefined(column.comment) /\ column.comment # Some(<<>>) /\ dialect = "mysql"
          THEN << <<"COMMENT ">> \o quoteString(column.comment[1]) >> ELSE <<>>
      parts == << quoteIdentifier(column.name, dialect), column.type >>
                 \o unsignedPart \o nullPart \o autoPart \o pkPart \o uniquePart
                 \o defaultPart \o commentPart
  IN  Join(parts, <<" ">>)

\* cols.map(c => quoteIdentifier(c, dialect)).join(', ')
QuotedList(cols, dialect) ==
  Join([i \in 1..Len(cols) |-> quoteIdentifier(cols[i], dialect)], <<", ">>)

formatForeignKey(fk, dialect) ==
  <<"CONSTRAINT ">> \o quoteIdentifier(fk.name, dialect) \o <<" ">>
    \o <<"FOREIGN KEY (">> \o QuotedList(fk.columns, dialect) \o <<") ">>
    \o <<"REFERENCES ">> \o quoteIdentifier(fk.referencesTable, dialect)
    \o <<" (">> \o QuotedList(fk.referencesColumns, dialect) \o <<")">>
    \o (IF fk.onDelete # "" /\ fk.onDelete # "NO ACTION"
          THEN <<" ON DELETE ", fk.onDelete>> ELSE <<>>)
    \o (IF fk.onUpdate # "" /\ fk.onUpdate # "NO ACTION"
          THEN <<" ON UPDATE ", fk.onUpdate>> ELSE <<>>)

\* The statement of formatIndex, given the quoted index name, table name
\* and column list (lines 331-333)
IndexStatement(index, dialect, name, table, cols) ==
  LET plain == <<"CREATE INDEX ">> \o name \o <<" ON ">> \o table \o <<" (">>
                 \o cols \o <<");">>
      using(method) == <<"CREATE INDEX ">> \o name \o <<" ON ">> \o table
                         \o <<" USING ", method, " (">> \o cols \o <<");">>
      tsvectorCols ==
        Join([i \in 1..Len(index.columns) |->
               <<"to_tsvector('english', ">>
                 \o quoteIdentifier(index.columns[i], dialect) \o <<")">>],
             <<" || ">>)
  IN  IF index.type = Some("fulltext") THEN
        CASE dialect = "mysql" ->
               <<"CREATE FULLTEXT INDEX ">> \o name \o <<" ON ">> \o table
                 \o <<" (">> \o cols \o <<");">>
          [] dialect = "postgresql" ->
               <<"CREATE INDEX ">> \o name \o <<" ON ">> \o table
                 \o <<" USING ", "GIN", " (">> \o tsvectorCols \o <<");">>
          [] dialect = "sqlite" -> plain
      ELSE IF index.type = Some("spatial") THEN
        CASE dialect = "mysql" ->
               <<"CREATE SPATIAL INDEX ">> \o name \o <<" ON ">> \o table
                 \o <<" (">> \o cols \o <<");">>
          [] dialect = "postgresql" -> using("GIST")
          [] dialect = "sqlite" -> plain
      ELSE IF index.type = Some("gin") /\ dialect = "postgresql" THEN using("GIN")
      ELSE IF index.type = Some("gist") /\ dialect = "postgresql" THEN using("GIST")
      ELSE IF index.type = Some("hash") THEN
        CASE dialect = "mysql" ->
               <<"CREATE INDEX ">> \o name \o <<" ON ">> \o table \o <<" (">>
                 \o cols \o <<") USING HASH;">>
          [] dialect = "postgresql" -> using("HASH")
          [] dialect = "sqlite" -> plain
      ELSE
        <<"CREATE ", (IF index.unique THEN "UNIQUE INDEX" ELSE "INDEX"), " ">>
          \o name \o <<" ON ">> \o table \o <<" (">> \o cols \o <<");">>

formatIndex(index, tableName, dialect) ==
  IndexStatement(index, dialect, quoteIdentifier(index.name, dialect),
                 quoteIdentifier(tableName, dialect),
                 QuotedList(index.columns, dialect))

\* options: [ifNotExists]
formatCreateTable(table, dialect, options) ==
  LET tableName == quoteIdentifier(table.name, dialect)
      ifNotExists == IF options.ifNotExists THEN <<"IF NOT EXISTS ">> ELSE <<>>
      lines ==
        [i \in 1..Len(table.columns) |->
           <<"  ">> \o formatColumn(table.columns[i], dialect)]
        \o [i \in 1..Len(table.foreignKeys) |->
              <<"  ">> \o formatForeignKey(table.foreignKeys[i], dialect)]
  IN  <<"CREATE TABLE ">> \o ifNotExists \o tableName \o <<" (", "\n">>
        \o Join(lines, <<",", "\n">>)
        \o <<"\n", ")">>
        \o (IF dialect = "mysql"
              THEN <<" ENGINE=InnoDB DEFAULT CHARSET=utf8mb4 COLLATE=utf8mb4_unicode_ci">>
              ELSE <<>>)
        \o <<";">>
        \o (IF IsDefined(table.comment) /\ table.comment # Some(<<>>)
               /\ dialect = "postgresql"
              THEN <<"\n", "\n", "COMMENT ON TABLE ">> \o tableName \o <<" IS ">>
                     \o quoteString(table.comment[1]) \o <<";">>
              ELSE <<>>)

\* A variant that appends CASCADE on every dialect
formatDropTableCascade(tableName, dialect, options) ==
  <<"DROP TABLE ">>
    \o (IF options.ifExists THEN <<"IF EXISTS ">> ELSE <<>>)
    \o quoteIdentifier(tableName, dialect)
    \o (IF options.cascade THEN <<" CASCADE">> ELSE <<>>)
    \o <<";">>

\* options: [ifExists, cascade]
formatDropTable(tableName, dialect, options) ==
  <<"DROP TABLE ">>
    \o (IF options.ifExists THEN <<"IF EXISTS ">> ELSE <<>>)
    \o quoteIdentifier(tableName, dialect)
    \o (IF options.cascade /\ dialect = "postgresql" THEN <<" CASCADE">> ELSE <<>>)
    \o <<";">>

\* One statement per index
formatIndexes(table, dialect) ==
  [i \in 1..Len(table.indexes) |-> formatIndex(table.indexes[i], table.name, dialect)]

\* The COMMENT ON COLUMN statements of the columns from column i on
RECURSIVE ColumnCommentsFrom(_, _, _)
ColumnCommentsFrom(table, i, dialect) ==
  IF i > Len(table.columns) THEN <<>>
  ELSE (IF IsDefined(table.columns[i].comment) /\ table.columns[i].comment # Some(<<>>)
          THEN << <<"COMMENT ON COLUMN ">> \o quoteIdentifier(table.name, dialect)
                    \o <<".">> \o quoteIdentifier(table.columns[i].name, dialect)
                    \o <<" IS ">> \o quoteString(table.columns[i].comment[1])
                    \o <<";">> >>
          ELSE <<>>)
       \o ColumnCommentsFrom(table, i + 1, dialect)

formatColumnComments(table, dialect) ==
  IF dialect # "postgresql" THEN <<>> ELSE ColumnCommentsFrom(table, 1, dialect)

(***************************************************************************)
(* migration/generator.ts: the compatibility validator                     *)
(***************************************************************************)
\* A variant that lists mysql, too, for Point
PointIncompatibleTypes(propType) ==
  IF propType = "Point"
    THEN Some([dialects |-> {"mysql", "sqlite"},
               reason |-> "SQLite does not support native spatial types."])
    ELSE None

\* DIALECT_INCOMPATIBLE_TYPES[propType]: optional {dialects, reason}
DIALECT_INCOMPATIBLE_TYPES(propType) ==
  IF propType = "Point"
    THEN Some([dialects |-> {"sqlite"},
               reason |-> "SQLite does not support native spatial types. Point will be stored as TEXT (JSON), which is incompatible with MySQL/PostgreSQL spatial functions (ST_Distance, ST_Within, etc.). Use Coordinates type for cross-database compatibility."])
    ELSE None

\* DIALECT_INCOMPATIBLE_INDEX_TYPES[indexType]: optional {dialects, reason, suggestion?}
DIALECT_INCOMPATIBLE_INDEX_TYPES(indexType) ==
  CASE indexType = "gin" ->
         Some([dialects |-> {"mysql", "sqlite"},
               reason |-> "GIN (Generalized Inverted Index) is PostgreSQL-specific.",
               suggestion |-> Some("For fulltext search, use type: \"fulltext\" instead. For JSONB indexing, this only works in PostgreSQL.")])
    [] indexType = "gist" ->
         Some([dialects |-> {"mysql", "sqlite"},
               reason |-> "GiST (Generalized Search Tree) is PostgreSQL-specific.",
               suggestion |-> Some("For spatial data, use type: \"spatial\" which works on both MySQL and PostgreSQL.")])
    [] indexType = "fulltext" ->
         Some([dialects |-> {"sqlite"},
               reason |-> "SQLite does not support native fulltext indexes. FTS requires virtual tables which are not auto-generated.",
               suggestion |-> Some("Consider using a regular index or implementing SQLite FTS manually.")])
    [] indexType = "spatial" ->
         Some([dialects |-> {"sqlite"},
               reason |-> "SQLite does not support spatial indexes.",
               suggestion |-> Some("Use Coordinates type with regular indexes for cross-database compatibility.")])
    [] OTHER -> None

\* The errors pushed for the properties of schema, from property i on
RECURSIVE PropertyErrors(_, _, _)
PropertyErrors(schema, i, dialect) ==
  IF i > Len(PropsOf(schema)) THEN <<>>
  ELSE
    LET property == PropsOf(schema)[i]
        propType == property.type
        incompatibility == DIALECT_INCOMPATIBLE_TYPES(propType)
    IN  (IF IsDefined(incompatibility) /\ dialect \in incompatibility[1].dialects
           THEN << <<"Schema \"">> \o schema.name \o <<"\", property \"">>
                     \o property.name \o <<"\": Type \"", propType,
                           "\" is not supported in ", dialect, ". ",
                           incompatibility[1].reason>> >>
           ELSE <<>>)
        \o PropertyErrors(schema, i + 1, dialect)

\* The errors pushed for the indexes of schema, from index i on
RECURSIVE IndexErrors(_, _, _)
IndexErrors(schema, i, dialect) ==
  IF i > Len(OrElse(schema.options.indexes, <<>>)) THEN <<>>
  ELSE
    LET indexDef == schema.options.indexes[1][i]
        incompatibility ==
          IF IsDefined(indexDef.type) /\ indexDef.type # Some("")
            THEN DIALECT_INCOMPATIBLE_INDEX_TYPES(indexDef.type[1])
            ELSE None
        indexName == OrElse(indexDef.name,
                            <<"index on [">> \o Join(indexDef.columns, <<", ">>)
                              \o <<"]">>)
    IN  (IF IsDefined(incompatibility) /\ dialect \in incompatibility[1].dialects
           THEN << <<"Schema \"">> \o schema.name \o <<"\", index \"">>
                     \o indexName \o <<"\": Index type \"", indexDef.type[1],
                           "\" is not supported in ", dialect, ". ",
                           incompatibility[1].reason>>
                     \o (IF IsDefined(incompatibility[1].suggestion)
                           THEN <<" ", incompatibility[1].suggestion[1]>>
                           ELSE <<>>) >>
           ELSE <<>>)
        \o IndexErrors(schema, i + 1, dialect)

\* The errors array after the loop over the schemas, from schema i on
RECURSIVE CollectErrors(_, _, _)
CollectErrors(schemas, i, dialect) ==
  IF i > Len(schemas) THEN <<>>
  ELSE (IF schemas[i].kind = Some("enum") THEN <<>>
        ELSE PropertyErrors(schemas[i], 1, dialect)
               \o IndexErrors(schemas[i], 1, dialect))
       \o CollectErrors(schemas, i + 1, dialect)

\* The result is optional: None when the validator returns normally, the
\* message of the Error it throws otherwise
\* A variant that reports the first error only
ThrowFirst(errors, dialect) ==
  IF Len(errors) > 0
    THEN Some(<<"SQL Generator: Incompatible types detected for dialect \"",
                dialect, "\":", "\n\n">>
              \o NumToText(1) \o <<". ">> \o errors[1]
              \o <<"\n\n",
                   "To fix: Either change the type/index or use a compatible dialect.">>)
    ELSE None

\* Lines 98-104: throw the aggregated Error when there are errors
ThrowIfAny(errors, dialect) ==
  IF Len(errors) > 0
    THEN Some(<<"SQL Generator: Incompatible types detected for dialect \"",
                dialect, "\":", "\n\n">>
              \o Join([i \in 1..Len(errors) |->
                         NumToText(i) \o <<". ">> \o errors[i]], <<"\n\n">>)
              \o <<"\n\n",
                   "To fix: Either change the type/index or use a compatible dialect.">>)
    ELSE None

\* A variant that looks at the first schema only
ValidateFirstSchema(schemas, dialect) ==
  ThrowIfAny(CollectErrors(SubSeq(schemas, 1, 1), 1, dialect), dialect)

validateSchemaCompatibility(schemas, dialect) ==
  ThrowIfAny(CollectErrors(schemas, 1, dialect), dialect)

(***************************************************************************)
(* migration/generator.ts: the migration orchestrator                      *)
(***************************************************************************)
\* options: the caller's options, every field optional
resolveOptions(options) ==
  [dialect |-> OrElse(options.dialect, "mysql"),
   ifNotExists |-> OrElse(options.ifNotExists, TRUE),
   generateDown |-> OrElse(options.generateDown, TRUE),
   startVersion |-> OrElse(options.startVersion, 1),
   versionPadding |-> OrElse(options.versionPadding, 4)]

formatVersion(version, padding) == padStart(NumToText(version), padding)

\* A variant that does not pad the version
UnpaddedFileName(version, name, padding) ==
  NumToText(version) \o <<"_">> \o name \o <<".sql">>

generateFileName(version, name, padding) ==
  LET versionStr == formatVersion(version, padding)
  IN  versionStr \o <<"_">> \o name \o <<".sql">>

\* The lines of generateCreateTableSql, given the index and the comment
\* statements
SqlLines(table, options, dialect, indexStatements, commentStatements) ==
  LET lines ==
        << <<"-- Migration: Create ">> \o table.name \o <<" table">>,
           <<"-- Generated by @famgia/omnify-sql">>,
           <<>>,
           formatCreateTable(table, dialect, [ifNotExists |-> options.ifNotExists]),
           <<>> >>
        \o (IF Len(indexStatements) > 0
              THEN << <<"-- Indexes">> >> \o indexStatements \o << <<>> >>
              ELSE <<>>)
        \o (IF Len(commentStatements) > 0
              THEN << <<"-- Column comments">> >> \o commentStatements \o << <<>> >>
              ELSE <<>>)
        \o (IF options.generateDown
              THEN << <<"-- Down migration">>,
                      <<"-- ">> \o formatDropTable(table.name, dialect,
                                     [ifExists |-> TRUE, cascade |-> TRUE]) >>
              ELSE <<>>)
  IN  Join(lines, <<"\n">>)

generateCreateTableSql(table, options) ==
  SqlLines(table, options, options.dialect,
           formatIndexes(table, options.dialect),
           formatColumnComments(table, options.dialect))

\* topologicalSort: the state of the visit is [sorted, visited, visiting]
RECURSIVE visit(_, _, _)
RECURSIVE VisitDependencies(_, _, _, _)
visit(schemas, schemaName, st) ==
  IF schemaName \in st.visited THEN st
  ELSE IF schemaName \in st.visiting THEN st
  ELSE
    LET st1 == [st EXCEPT !.visiting = @ \cup {schemaName}]
        schema == Lookup(schemas, schemaName)
    IN  IF ~ IsDefined(schema) THEN st1
        ELSE
          LET st2 == VisitDependencies(schemas, schema[1], 1, st1)
          IN  [sorted |-> Append(st2.sorted, schema[1]),
               visited |-> st2.visited \cup {schemaName},
               visiting |-> st2.visiting \ {schemaName}]

\* A variant that follows the ManyToOne associations only
RECURSIVE VisitManyToOne(_, _, _, _)
VisitManyToOne(schemas, schema, i, st) ==
  IF i > Len(PropsOf(schema)) THEN st
  ELSE
    LET property == PropsOf(schema)[i]
        st1 == IF /\ property.type = "Association"
                  /\ OrElse(property.relation, "") = "ManyToOne"
                  /\ IsDefined(property.target) /\ property.target # Some(<<>>)
                 THEN visit(schemas, property.target[1], st)
                 ELSE st
    IN  VisitManyToOne(schemas, schema, i + 1, st1)

\* The loop over the properties of schema (lines 212-221), from property i on
VisitDependencies(schemas, schema, i, st) ==
  IF i > Len(PropsOf(schema)) THEN st
  ELSE
    LET property == PropsOf(schema)[i]
        st1 == IF /\ property.type = "Association"
                  /\ OrElse(property.relation, "") \in {"ManyToOne", "OneToOne"}
                  /\ IsDefined(property.target) /\ property.target # Some(<<>>)
                 THEN visit(schemas, property.target[1], st)
                 ELSE st
    IN  VisitDependencies(schemas, schema, i + 1, st1)

\* A variant that visits the first key only
VisitFirstKey(schemas, i, st) ==
  IF schemas = <<>> THEN st ELSE visit(schemas, schemas[1].name, st)

\* The loop over Object.keys(schemas) (lines 228-230), from key i on
RECURSIVE VisitAll(_, _, _)
VisitAll(schemas, i, st) ==
  IF i > Len(schemas) THEN st
  ELSE VisitAll(schemas, i + 1, visit(schemas, schemas[i].name, st))

\* A variant that leaves the schemas in key order
KeyOrderSort(schemas) == schemas

topologicalSort(schemas) ==
  VisitAll(schemas, 1, [sorted |-> <<>>, visited |-> {}, visiting |-> {}]).sorted

\* A variant that keeps the enum schemas
EverySchema(schemas) == schemas

\* objectSchemas (lines 250-256): the schemas whose kind is not enum
RECURSIVE ObjectSchemas(_)
ObjectSchemas(schemas) ==
  IF schemas = <<>> THEN <<>>
  ELSE (IF Head(schemas).kind # Some("enum") THEN <<Head(schemas)>> ELSE <<>>)
       \o ObjectSchemas(Tail(schemas))

\* The migration pushed for a table (lines 268-275 and 290-297, 307-314)
Migration(version, table, type, resolved) ==
  [version |-> version,
   name |-> NamePiece.create \o table.name,
   fileName |-> generateFileName(version, NamePiece.create \o table.name,
                                 resolved.versionPadding),
   content |-> generateCreateTableSql(table, resolved),
   tables |-> <<table.name>>,
   type |-> type]

\* options: the caller's options and version, every field optional
generateMigrationFromSchema(schema, allSchemas, options) ==
  Migration(OrElse(options.version, resolveOptions(options).startVersion),
            schemaToTable(schema, allSchemas, resolveOptions(options)),
            "create", resolveOptions(options))

\* Lines 361-377 of generateDropMigration, on the table name, the version and
\* the resolved options determined
DropMigrationOf(snakeTable, version, resolved) ==
  [version |-> version,
   name |-> NamePiece.drop \o snakeTable,
   fileName |-> generateFileName(version, NamePiece.drop \o snakeTable,
                                 resolved.versionPadding),
   content |->
     Join(<< <<"-- Migration: Drop ">> \o snakeTable \o <<" table">>,
             <<"-- Generated by @famgia/omnify-sql">>,
             <<>>,
             formatDropTable(snakeTable, resolved.dialect,
                             [ifExists |-> TRUE, cascade |-> TRUE]) >>,
          <<"\n">>),
   tables |-> <<snakeTable>>,
   type |-> "drop"]

\* options: the caller's options and version, every field optional
generateDropMigration(tableName, options) ==
  LET isTableName == \/ Includes(tableName, "_")
                     \/ endsWith(tableName, <<"s">>)
                     \/ endsWith(tableName, <<"e","s">>)
  IN  DropMigrationOf(IF isTableName THEN tableName ELSE toTableName(tableName),
                      OrElse(options.version, resolveOptions(options).startVersion),
                      resolveOptions(options))

(***************************************************************************)
(* The inputs: schemas and properties as the source reads them             *)
(* (LoadedSchema and PropertyDefinition of @famgia/omnify-types)           *)
(***************************************************************************)
EntityName ==
  [User |-> <<"U","s","e","r">>,
   Post |-> <<"P","o","s","t">>,
   Tag |-> <<"T","a","g">>,
   Role |-> <<"R","o","l","e">>,
   Category |-> <<"C","a","t","e","g","o","r","y">>,
   Status |-> <<"S","t","a","t","u","s">>]
NamePool == <<EntityName.User, EntityName.Post, EntityName.Tag, EntityName.Role,
              EntityName.Category>>

\* A property with every optional field undefined
BaseProp(name, type) ==
  [name |-> name, type |-> type, nullable |-> None, unique |-> None,
   default |-> None, displayName |-> None, length |-> None, precision |-> None,
   scale |-> None, enum |-> None, options |-> None, relation |-> None,
   target |-> None, targets |-> None, onDelete |-> None, onUpdate |-> None,
   joinTable |-> None]

\* { type: 'Association', relation, target }
Assoc(name, relation, target) ==
  [BaseProp(name, "Association") EXCEPT !.relation = Some(relation),
                                        !.target = Some(target)]

\* Schema options with every field undefined
BaseOptions ==
  [id |-> None, idType |-> None, timestamps |-> None, softDelete |-> None,
   indexes |-> None, unique |-> None]

\* A loaded schema
Schema(name, kind, properties, opts) ==
  [name |-> name, kind |-> kind, properties |-> Some(properties),
   options |-> opts, displayName |-> None]

\* The caller's options with every field undefined
BaseCallOptions ==
  [dialect |-> None, ifNotExists |-> None, generateDown |-> None,
   startVersion |-> None, versionPadding |-> None]

\* name in small letters: a property name
LowerName(name) == [i \in 1..Len(name) |-> toLowerCase(name[i])]

\* The sequences of 1..n pairwise distinct elements of S
InjectiveSeqs(S, n) ==
  {q \in UNION {[1..k -> S] : k \in 1..n} :
     \A a, b \in 1..Len(q) : a # b => q[a] # q[b]}

\* The subsets of S with at most k elements
RECURSIVE SubsetsUpTo(_, _)
SubsetsUpTo(S, k) ==
  IF k = 0 THEN {{}}
  ELSE LET P == SubsetsUpTo(S, k - 1)
       IN  P \cup {p \cup {x} : p \in P, x \in S}

\* The nonempty subsets of S with at most n elements, each as the sequence
\* of its elements in the pool's order
PoolIndex(name) == CHOOSE k \in 1..Len(NamePool) : NamePool[k] = name
OrderedSeqs(S, n) ==
  {q \in InjectiveSeqs(S, n) :
     \A a, b \in 1..Len(q) : a < b => PoolIndex(q[a]) < PoolIndex(q[b])}

\* Bounds of the inputs
MaxDepSchemas == 3
MaxEdges == 3
MaxSchemas == 2
MaxFeatures == 2
MaxRelations == 2
MaxProps == 2

\* Property names of the inputs
PropName ==
  [name |-> <<"n","a","m","e">>,
   location |-> <<"l","o","c","a","t","i","o","n">>,
   status |-> <<"s","t","a","t","u","s">>,
   email |-> <<"e","m","a","i","l">>,
   note |-> <<"n","o","t","e">>]

\* ---- Dependency inputs ----
DepPool == {NamePool[k] : k \in 1..MaxDepSchemas}

\* The association properties an edge set gives entity src: one per target,
\* in the pool's order from pool position k on; the first is ManyToOne, the
\* others OneToOne
RECURSIVE DepProps(_, _, _, _)
DepProps(src, edges, k, first) ==
  IF k > MaxDepSchemas THEN <<>>
  ELSE IF <<src, NamePool[k]>> \in edges
    THEN <<Assoc(LowerName(NamePool[k]),
                 IF first THEN "ManyToOne" ELSE "OneToOne", NamePool[k])>>
           \o DepProps(src, edges, k + 1, FALSE)
    ELSE DepProps(src, edges, k + 1, first)

\* Entities in the pool's order, with at most MaxEdges ManyToOne/OneToOne
\* associations to names of the pool (in the collection or not, before or
\* after the entity in key order)
DepCollections ==
  {[i \in 1..Len(order) |->
      Schema(order[i], Some("object"), DepProps(order[i], edges, 1, TRUE), BaseOptions)] :
     order \in OrderedSeqs(DepPool, MaxDepSchemas),
     edges \in SubsetsUpTo(DepPool \X DepPool, MaxEdges)}

DepInputs == {[schemas |-> c, options |-> BaseCallOptions] : c \in DepCollections}

\* The dependency collections, and the same with the first entity of the
\* pool of kind enum wherever it is a key: a target of kind enum
KindCollections ==
  DepCollections
    \cup {[i \in 1..Len(c) |->
             IF c[i].name = NamePool[1] THEN [c[i] EXCEPT !.kind = Some("enum")]
             ELSE c[i]] : c \in DepCollections}

KindInputs == {[schemas |-> c, options |-> BaseCallOptions] : c \in KindCollections}

\* ---- Validation inputs ----
IndexTypes == {"btree", "hash", "fulltext", "spatial", "gin", "gist"}
ValFeatures == {"enum", "string", "point", "untyped"} \cup IndexTypes

\* An index over the column name; the btree and gin ones are named
ValIndex(f) ==
  [name |-> IF f \in {"btree", "gin"}
              THEN Some(<<"i","x","_">> \o [i \in 1..Len(f) |-> "x"])
              ELSE None,
   columns |-> <<PropName.name>>,
   unique |-> None,
   type |-> IF f = "untyped" THEN None ELSE Some(f)]

\* The indexes the features fs give an entity, in the order of order
RECURSIVE ValIndexes(_, _)
ValIndexes(fs, order) ==
  IF order = <<>> THEN <<>>
  ELSE (IF Head(order) \in fs THEN <<ValIndex(Head(order))>> ELSE <<>>)
       \o ValIndexes(fs, Tail(order))

ValSchema(name, fs) ==
  Schema(name,
         IF "enum" \in fs THEN Some("enum") ELSE Some("object"),
         (IF "string" \in fs THEN <<BaseProp(PropName.name, "String")>> ELSE <<>>)
           \o (IF "point" \in fs THEN <<BaseProp(PropName.location, "Point")>> ELSE <<>>),
         [BaseOptions EXCEPT
            !.indexes = IF fs \cap (IndexTypes \cup {"untyped"}) = {} THEN None
                        ELSE Some(ValIndexes(fs, <<"untyped", "btree", "hash",
                                                   "fulltext", "spatial", "gin",
                                                   "gist">>))])

\* Entities in the pool's order, kind object or enum, with at most
\* MaxFeatures features in all: String or Point properties, indexes of any type
ValCollections ==
  {[i \in 1..Len(order) |->
      ValSchema(order[i], {f \in ValFeatures : <<order[i], f>> \in features})] :
     order \in OrderedSeqs({NamePool[k] : k \in 1..MaxSchemas}, MaxSchemas),
     features \in SubsetsUpTo({NamePool[k] : k \in 1..MaxSchemas} \X ValFeatures,
                              MaxFeatures)}

ValInputs ==
  {[schemas |-> c, options |-> [BaseCallOptions EXCEPT !.dialect = Some(d)]] :
     c \in ValCollections, d \in Dialects}

\* ---- Pivot inputs ----
PivotPool == {NamePool[k] : k \in 1..MaxSchemas}

\* The ManyToMany and MorphToMany properties a relation set gives entity
\* src, from position k of the sequence pool on
RECURSIVE PivotProps(_, _, _, _)
PivotProps(pool, src, relations, k) ==
  IF k > Len(pool) THEN <<>>
  ELSE (IF <<src, "ManyToMany", pool[k]>> \in relations
          THEN <<Assoc(LowerName(pool[k]) \o <<"s">>, "ManyToMany", pool[k])>>
          ELSE <<>>)
       \o (IF <<src, "MorphToMany", pool[k]>> \in relations
             THEN <<Assoc(LowerName(pool[k]) \o <<"M","o","r","p","h","s">>,
                          "MorphToMany", pool[k])>>
             ELSE <<>>)
       \o PivotProps(pool, src, relations, k + 1)

\* Entities in one of the key orders orders, with at most MaxRelations
\* ManyToMany or MorphToMany associations to names of the pool (in the
\* collection or not)
PivotCollections(orders) ==
  {[i \in 1..Len(order) |->
      Schema(order[i], Some("object"),
             PivotProps(SubSeq(NamePool, 1, MaxSchemas), order[i], relations, 1),
             BaseOptions)] :
     order \in orders,
     relations \in SubsetsUpTo(PivotPool \X {"ManyToMany", "MorphToMany"} \X PivotPool, MaxRelations)}

\* Any key order, the default options
PivotInputs ==
  {[schemas |-> c, options |-> BaseCallOptions] :
     c \in PivotCollections(InjectiveSeqs(PivotPool, MaxSchemas))}

\* ---- Morph pivot inputs ----
\* The pool of the morph inputs: a name that ends in s, then names of the pool
MorphPool == <<EntityName.Status>> \o SubSeq(NamePool, 1, MaxSchemas - 1)

\* Entities in any key order with at most MaxRelations MorphToMany
\* associations to names of the pool; at most one entity has idType Uuid
MorphCollections ==
  {[i \in 1..Len(order) |->
      Schema(order[i], Some("object"), PivotProps(MorphPool, order[i], relations, 1),
             [BaseOptions EXCEPT
                !.idType = IF order[i] \in uuids THEN Some("Uuid") ELSE None])] :
     order \in InjectiveSeqs({MorphPool[k] : k \in 1..MaxSchemas}, MaxSchemas),
     relations \in SubsetsUpTo({MorphPool[k] : k \in 1..MaxSchemas} \X {"MorphToMany"}
                                 \X {MorphPool[k] : k \in 1..MaxSchemas}, MaxRelations),
     uuids \in SubsetsUpTo({MorphPool[k] : k \in 1..MaxSchemas}, 1)}

MorphInputs ==
  {[schemas |-> c, options |-> [BaseCallOptions EXCEPT !.dialect = Some(d)]] :
     c \in MorphCollections, d \in Dialects}

\* ---- Inputs of repeated calls ----
OptionVariants ==
  { BaseCallOptions,
    [dialect |-> Some("postgresql"), ifNotExists |-> Some(FALSE),
     generateDown |-> Some(FALSE), startVersion |-> Some(9),
     versionPadding |-> Some(1)],
    [dialect |-> Some("sqlite"), ifNotExists |-> None, generateDown |-> None,
     startVersion |-> Some(98), versionPadding |-> Some(2)] }

\* The pool's key order, every variant of the options
CallInputs ==
  {[schemas |-> c, options |-> o] :
     c \in PivotCollections(OrderedSeqs(PivotPool, MaxSchemas)), o \in OptionVariants}

\* ---- Drop inputs ----
\* One entity without properties, of any name of the pool or a name that ends
\* in s; every variant of the options
DropInputs ==
  {[schemas |-> <<Schema(n, Some("object"), <<>>, BaseOptions)>>, options |-> o] :
     n \in {NamePool[k] : k \in 1..Len(NamePool)} \cup {EntityName.Status},
     o \in OptionVariants}

\* ---- Column inputs ----
ColFeatures ==
  {"enum", "enumRef", "select", "selectPlain", "morphTo", "coordinates", "homeLocation",
   "uniqueEmail", "quotedDefault", "boolDefault", "decimal",
   "manyToOne", "oneToOne", "manyToMany", "morphToMany",
   "noId", "uuid", "softDelete", "noTimestamps", "uniqueHashIndex",
   "uniqueConstraint", "uniqueNote", "displayName", "statementDefault"}

\* The properties features give the entity, in declaration order
ColProps(fs) ==
  (IF "enum" \in fs
     THEN <<[BaseProp(PropName.status, "Enum") EXCEPT
               !.enum = Some([isArray |-> TRUE,
                              values |-> << <<"o","n">>, <<"o","f","f">> >>]),
               !.default = Some([kind |-> "string", s |-> <<"o","n">>])]>>
     ELSE <<>>)
  \o (IF "enumRef" \in fs
        THEN <<[BaseProp(<<"s","t","a","t","e">>, "Enum") EXCEPT
                  !.enum = Some([isArray |-> FALSE, values |-> <<>>])]>>
        ELSE <<>>)
  \o (IF "select" \in fs
        THEN <<[BaseProp(<<"t","i","e","r">>, "Select") EXCEPT
                  !.options = Some(<< <<"a">>, <<"b">> >>),
                  !.nullable = Some(TRUE)]>>
        ELSE <<>>)
  \o (IF "selectPlain" \in fs
        THEN <<BaseProp(<<"p","l","a","n">>, "Select")>> ELSE <<>>)
  \o (IF "morphTo" \in fs
        THEN <<[BaseProp(<<"o","w","n","e","r">>, "Association") EXCEPT
                  !.relation = Some("MorphTo"),
                  !.targets = Some(<<EntityName.Role, EntityName.User>>)]>>
        ELSE <<>>)
  \o (IF "coordinates" \in fs
        THEN <<[BaseProp(PropName.location, "Coordinates") EXCEPT !.nullable = Some(TRUE)]>>
        ELSE <<>>)
  \o (IF "homeLocation" \in fs
        THEN <<BaseProp(<<"h","o","m","e","L","o","c","a","t","i","o","n">>, "Coordinates")>>
        ELSE <<>>)
  \o (IF "uniqueEmail" \in fs
        THEN <<[BaseProp(PropName.email, "Email") EXCEPT !.unique = Some(TRUE)]>>
        ELSE <<>>)
  \o (IF "quotedDefault" \in fs
        THEN <<[BaseProp(PropName.note, "String") EXCEPT
                  !.default = Some([kind |-> "string", s |-> <<"i","t","'","s">>]),
                  !.length = Some(40)]>>
        ELSE <<>>)
  \o (IF "statementDefault" \in fs
        THEN <<[BaseProp(<<"m","e","m","o">>, "String") EXCEPT
                  !.default =
                    Some([kind |-> "string",
                          s |-> <<"'", ")", ";", " ", "DROP TABLE ",
                                  "u","s","e","r","s", ";", " ", "-", "-", " ">>])]>>
        ELSE <<>>)
  \o (IF "boolDefault" \in fs
        THEN <<[BaseProp(<<"a","c","t","i","v","e">>, "Boolean") EXCEPT
                  !.default = Some([kind |-> "boolean", b |-> TRUE])]>>
        ELSE <<>>)
  \o (IF "decimal" \in fs
        THEN <<[BaseProp(<<"p","r","i","c","e">>, "Decimal") EXCEPT
                  !.precision = Some(8),
                  !.default = Some([kind |-> "number", n |-> 0])]>>
        ELSE <<>>)
  \o (IF "manyToOne" \in fs
        THEN <<[Assoc(<<"r","o","l","e">>, "ManyToOne", EntityName.Role) EXCEPT
                  !.nullable = Some(TRUE), !.onDelete = Some("SET NULL")]>>
        ELSE <<>>)
  \o (IF "oneToOne" \in fs
        THEN <<Assoc(<<"p","a","r","e","n","t","U","s","e","r">>, "OneToOne",
                     EntityName.User)>>
        ELSE <<>>)
  \o (IF "manyToMany" \in fs
        THEN <<Assoc(<<"r","o","l","e","s">>, "ManyToMany", EntityName.Role)>> ELSE <<>>)
  \o (IF "morphToMany" \in fs
        THEN <<Assoc(<<"t","a","g","s">>, "MorphToMany", EntityName.Role)>> ELSE <<>>)
  \o (IF "displayName" \in fs
        THEN <<[BaseProp(PropName.name, "String") EXCEPT
                  !.displayName = Some(<<"U","s","e","r","'","s">>)]>>
        ELSE <<>>)

\* The schema options features give the entity
ColOptions(fs) ==
  [id |-> IF "noId" \in fs THEN Some(FALSE) ELSE None,
   idType |-> IF "uuid" \in fs THEN Some("Uuid") ELSE None,
   timestamps |-> IF "noTimestamps" \in fs THEN Some(FALSE) ELSE None,
   softDelete |-> IF "softDelete" \in fs THEN Some(TRUE) ELSE None,
   indexes |-> IF "uniqueHashIndex" \in fs
                 THEN Some(<<[name |-> None, columns |-> <<PropName.email>>,
                              unique |-> Some(TRUE), type |-> Some("hash")]>>)
                 ELSE None,
   unique |-> IF {"uniqueConstraint", "uniqueNote"} \subseteq fs
                THEN Some([nested |-> TRUE, flat |-> <<>>,
                           groups |-> << <<PropName.email>>, <<PropName.note>> >>])
              ELSE IF "uniqueConstraint" \in fs
                THEN Some([nested |-> FALSE, flat |-> <<PropName.email>>, groups |-> <<>>])
              ELSE IF "uniqueNote" \in fs
                THEN Some([nested |-> FALSE, flat |-> <<PropName.note>>, groups |-> <<>>])
              ELSE None]

\* The entity User with at most MaxProps features, next to a plain entity Role
ColCollections ==
  {<<Schema(EntityName.User, Some("object"), ColProps(fs), ColOptions(fs)),
     Schema(EntityName.Role, Some("object"), <<BaseProp(PropName.name, "String")>>, BaseOptions)>> :
     fs \in SubsetsUpTo(ColFeatures, MaxProps)}

ColInputs ==
  {[schemas |-> c, options |-> [BaseCallOptions EXCEPT !.dialect = Some(d)]] :
     c \in ColCollections, d \in Dialects}

(***************************************************************************)
(* The state: the caller's input, and the locals of one call of            *)
(* generateMigrations                                                      *)
(***************************************************************************)
VARIABLES
  schemas,        \* the schema collection the caller passes
  options,        \* the options the caller passes (every field optional)
  pc,             \* "ready", "create" (first loop), "pivot" (second loop), "done", "thrown"
  migrations,     \* the migrations array of the current call
  version,        \* the version counter of the current call
  sortedSchemas,  \* the sorted object schemas of the current call
  createdPivots,  \* the set of pivot names created in the current call
  idx,            \* position of the running loop in sortedSchemas
  thrown,         \* the message of the Error the current call threw (optional)
  built,          \* the tables the builders returned in the current call, in order
  previous,       \* what the previous call returned or threw (optional)
  dropped,        \* a call of generateDropMigration and what it returned (optional)
  applied         \* a call of another exported function and its outcome (optional)

vars == <<schemas, options, pc, migrations, version, sortedSchemas,
          createdPivots, idx, thrown, built, previous, dropped, applied>>

Resolved == resolveOptions(options)

\* Where the call stands once the loop that ran up to position i is left
AfterCreate(sorted, i) == IF i <= Len(sorted) THEN "create"
                          ELSE IF Len(sorted) > 0 THEN "pivot" ELSE "done"
AfterPivot(sorted, i) == IF i <= Len(sorted) THEN "pivot" ELSE "done"

\* What a finished call handed to its caller
Outcome == [thrown |-> thrown, migrations |-> migrations]

\* Lines 245-262, given what the validator threw (optional) and the sorted
\* object schemas: the call ends with the Error, or its locals are initialised
EnterWith(pivots, error, sorted) ==
  IF IsDefined(error)
    THEN /\ pc' = "thrown"
         /\ thrown' = error
         /\ migrations' = <<>>
         /\ version' = 0
         /\ sortedSchemas' = <<>>
         /\ createdPivots' = {}
         /\ idx' = 0
    ELSE /\ pc' = AfterCreate(sorted, 1)
         /\ thrown' = None
         /\ migrations' = <<>>
         /\ version' = Resolved.startVersion
         /\ sortedSchemas' = sorted
         /\ createdPivots' = pivots
         /\ idx' = 1

\* Lines 242-262: resolve the options, validate, initialise the locals,
\* filter and sort.  pivots is the set createdPivots starts from.
BeginCall(pivots) ==
  /\ previous' = IF pc = "ready" THEN None ELSE Some(Outcome)
  /\ EnterWith(pivots, validateSchemaCompatibility(schemas, Resolved.dialect),
               topologicalSort(ObjectSchemas(schemas)))
  /\ built' = <<>>
  /\ UNCHANGED <<schemas, options, dropped, applied>>

\* The first call
Start ==
  /\ pc = "ready"
  /\ BeginCall({})

\* Lines 265-278: one iteration of the first loop
PushCreate(schema, table) ==
  /\ migrations' = Append(migrations, Migration(version, table, "create", Resolved))
  /\ built' = Append(built, [via |-> "schemaToTable", source |-> schema.name,
                             table |-> table])

CreateTable ==
  /\ pc = "create"
  /\ PushCreate(sortedSchemas[idx], schemaToTable(sortedSchemas[idx], schemas, Resolved))
  /\ version' = version + 1
  /\ idx' = IF idx + 1 <= Len(sortedSchemas) THEN idx + 1 ELSE 1
  /\ pc' = AfterCreate(sortedSchemas, idx + 1)
  /\ UNCHANGED <<schemas, options, sortedSchemas, createdPivots, thrown, previous, dropped, applied>>

\* A variant that does not consult createdPivots
EmitPivotAlways(st, pivot, via, source, resolved) ==
  IF IsDefined(pivot)
    THEN [st EXCEPT
            !.built = Append(@, [via |-> via, source |-> source, table |-> pivot[1]]),
            !.createdPivots = @ \cup {pivot[1].name},
            !.migrations = Append(@, Migration(st.version, pivot[1], "pivot", resolved)),
            !.version = @ + 1]
    ELSE st

\* A variant that puts the migration of a pivot table at the head of the list
EmitPivotFirst(st, pivot, via, source, resolved) ==
  IF IsDefined(pivot) /\ pivot[1].name \notin st.createdPivots
    THEN [st EXCEPT
            !.built = Append(@, [via |-> via, source |-> source, table |-> pivot[1]]),
            !.createdPivots = @ \cup {pivot[1].name},
            !.migrations = <<Migration(st.version, pivot[1], "pivot", resolved)>> \o @,
            !.version = @ + 1]
    ELSE st

\* Lines 287-300 and 304-317: push the migration of a pivot table unless its
\* name is already in createdPivots; st is [migrations, version, createdPivots, built]
EmitPivot(st, pivot, via, source, resolved) ==
  LET st1 == IF IsDefined(pivot)
               THEN [st EXCEPT !.built = Append(@, [via |-> via, source |-> source,
                                                    table |-> pivot[1]])]
               ELSE st
  IN  IF IsDefined(pivot) /\ pivot[1].name \notin st.createdPivots
        THEN [st1 EXCEPT
                !.createdPivots = @ \cup {pivot[1].name},
                !.migrations = Append(@, Migration(st.version, pivot[1], "pivot", resolved)),
                !.version = @ + 1]
        ELSE st1

\* Lines 284-318: the loop over the properties of schema, from property j on
RECURSIVE PivotLoop(_, _, _, _, _)
PivotLoop(schema, j, st, allSchemas, resolved) ==
  IF j > Len(PropsOf(schema)) THEN st
  ELSE
    LET property == PropsOf(schema)[j]
        st1 == EmitPivot(st, generatePivotTable(schema, property.name, property,
                                                allSchemas, resolved),
                         "generatePivotTable", schema.name, resolved)
        st2 == EmitPivot(st1, generateMorphPivotTable(schema, property.name, property,
                                                      allSchemas, resolved),
                         "generateMorphPivotTable", schema.name, resolved)
    IN  PivotLoop(schema, j + 1, st2, allSchemas, resolved)

\* The locals after an iteration of the second loop
StoreLocals(st) ==
  /\ migrations' = st.migrations
  /\ version' = st.version
  /\ createdPivots' = st.createdPivots
  /\ built' = st.built

\* Lines 281-319: one iteration of the second loop
CreatePivots ==
  /\ pc = "pivot"
  /\ StoreLocals(PivotLoop(sortedSchemas[idx], 1,
                           [migrations |-> migrations, version |-> version,
                            createdPivots |-> createdPivots, built |-> built],
                           schemas, Resolved))
  /\ idx' = idx + 1
  /\ pc' = AfterPivot(sortedSchemas, idx + 1)
  /\ UNCHANGED <<schemas, options, sortedSchemas, thrown, previous, dropped, applied>>

Next == Start \/ CreateTable \/ CreatePivots

\* The state before the first call, on an input of the set inputs
InitOn(inputs) ==
  /\ \E input \in inputs : schemas = input.schemas /\ options = input.options
  /\ pc = "ready"
  /\ migrations = <<>>
  /\ version = 0
  /\ sortedSchemas = <<>>
  /\ createdPivots = {}
  /\ idx = 0
  /\ thrown = None
  /\ built = <<>>
  /\ previous = None
  /\ dropped = None
  /\ applied = None

\* A variant in which createdPivots outlives the call
CallAgainKeepingPivots ==
  /\ pc \in {"done", "thrown"}
  /\ BeginCall(createdPivots)

\* A variant in which the version counter outlives the call
CallAgainCountingOn ==
  /\ pc = "done"
  /\ previous' = Some(Outcome)
  /\ pc' = AfterCreate(sortedSchemas, 1)
  /\ migrations' = <<>>
  /\ built' = <<>>
  /\ createdPivots' = {}
  /\ idx' = 1
  /\ version' = version
  /\ UNCHANGED <<schemas, options, sortedSchemas, thrown, dropped, applied>>

\* A further call on the same input, after the call before has returned or thrown
CallAgain ==
  /\ pc \in {"done", "thrown"}
  /\ BeginCall({})

NextAgain == Next \/ CallAgain

SpecDep == InitOn(DepInputs) /\ [][Next]_vars
SpecVal == InitOn(ValInputs) /\ [][Next]_vars
SpecPivot == InitOn(PivotInputs) /\ [][Next]_vars
SpecCols == InitOn(ColInputs) /\ [][Next]_vars
SpecCalls == InitOn(CallInputs) /\ [][NextAgain]_vars
SpecMorph == InitOn(MorphInputs) /\ [][Next]_vars

SpecSort == InitOn(KindInputs) /\ [][Next]_vars

\* generateDropMigration, called once the migrations were generated: with the
\* name of an entity, or with the table name of an artifact as the raw table
\* name; with or without a version next to the options of the run
DropTable ==
  /\ pc = "done"
  /\ dropped = None
  /\ \E tableName \in {schemas[i].name : i \in 1..Len(schemas)}
                       \cup {migrations[k].tables[1] : k \in 1..Len(migrations)},
        v \in {None, Some(12)} :
       dropped' = Some([tableName |-> tableName,
                        version |-> v,
                        migration |->
                          generateDropMigration(
                            tableName,
                            [dialect |-> options.dialect,
                             ifNotExists |-> options.ifNotExists,
                             generateDown |-> options.generateDown,
                             startVersion |-> options.startVersion,
                             versionPadding |-> options.versionPadding,
                             version |-> v])])
  /\ UNCHANGED <<schemas, options, pc, migrations, version, sortedSchemas,
                 createdPivots, idx, thrown, built, previous, applied>>

NextDrop == Next \/ DropTable

SpecDrop == InitOn(DropInputs) /\ [][NextDrop]_vars

\* generateMigrationFromSchema, called once generateMigrations has returned
\* or thrown: on an object-kind entity of the collection, with the collection
\* and the options of the run, with or without a version
MigrationFromSchema ==
  /\ pc \in {"done", "thrown"}
  /\ applied = None
  /\ \E i \in 1..Len(schemas), v \in {None, Some(12)} :
       /\ schemas[i].kind # Some("enum")
       /\ applied' =
            Some([schema |-> schemas[i].name,
                  version |-> v,
                  thrown |-> None,
                  migration |->
                    Some(generateMigrationFromSchema(
                           schemas[i], schemas,
                           [dialect |-> options.dialect,
                            ifNotExists |-> options.ifNotExists,
                            generateDown |-> options.generateDown,
                            startVersion |-> options.startVersion,
                            versionPadding |-> options.versionPadding,
                            version |-> v]))])
  /\ UNCHANGED <<schemas, options, pc, migrations, version, sortedSchemas,
                 createdPivots, idx, thrown, built, previous, dropped>>

NextSingle == Next \/ MigrationFromSchema

SpecSingle == InitOn(ValInputs) /\ [][NextSingle]_vars

\* formatColumn, called on its own with a column of any flags, with or
\* without a default value and a comment, under any dialect
FormatColumn ==
  /\ pc = "ready"
  /\ applied = None
  /\ \E nullable \in BOOLEAN, primaryKey \in BOOLEAN, autoIncrement \in BOOLEAN,
        unique \in BOOLEAN, unsigned \in BOOLEAN,
        defaultValue \in {None, Some(<<"0">>)},
        comment \in {None, Some(<<"k","e","y">>)},
        dialect \in Dialects :
       applied' =
         Some([column |-> Column(NamePiece.id, <<"INT">>, nullable, primaryKey,
                                 autoIncrement, unique, unsigned, defaultValue, comment),
               dialect |-> dialect,
               text |-> formatColumn(
                          Column(NamePiece.id, <<"INT">>, nullable, primaryKey,
                                 autoIncrement, unique, unsigned, defaultValue, comment),
                          dialect)])
  /\ UNCHANGED <<schemas, options, pc, migrations, version, sortedSchemas,
                 createdPivots, idx, thrown, built, previous, dropped>>

SpecFormat ==
  InitOn({[schemas |-> <<>>, options |-> BaseCallOptions]}) /\ [][FormatColumn]_vars

(***************************************************************************)
(* Properties of generateMigrations                                        *)
(***************************************************************************)
\* The names of the entities of the collection whose kind is not enum
ObjectNames == {schemas[i].name : i \in {j \in 1..Len(schemas) : schemas[j].kind # Some("enum")}}

\* The position of the entity named name among the keys of the collection
KeyIndex(name) == CHOOSE i \in 1..Len(schemas) : schemas[i].name = name

\* Entity a declares a ManyToOne or OneToOne association whose target is b
References(a, b) ==
  \E i \in 1..Len(PropsOf(schemas[KeyIndex(a)])) :
    LET property == PropsOf(schemas[KeyIndex(a)])[i]
    IN  /\ property.type = "Association"
        /\ property.relation \in {Some("ManyToOne"), Some("OneToOne")}
        /\ property.target = Some(b)

\* The entities reached from the set from by at most n references
RECURSIVE ReachedFrom(_, _)
ReachedFrom(from, n) ==
  IF n = 0 THEN from
  ELSE LET near == ReachedFrom(from, n - 1)
       IN  near \cup {b \in ObjectNames : \E a \in near : References(a, b)}

\* No entity reaches itself by one or more references
Acyclic ==
  \A a \in ObjectNames :
    a \notin ReachedFrom({b \in ObjectNames : References(a, b)}, Len(schemas))

\* The positions in the returned list of the create artifacts of the entity
CreateIndexes(name) ==
  {k \in 1..Len(migrations) :
     migrations[k].type = "create" /\ migrations[k].tables = <<toTableName(name)>>}

\* C1: when the ManyToOne/OneToOne associations between the object-kind
\* entities form no cycle, the create artifact of a referenced entity is at a
\* smaller index of the returned list than the create artifact of every
\* entity that references it, wherever the two stand in key order.
C1_DependencyOrder ==
  Acyclic =>
    \A a, b \in ObjectNames :
      References(a, b) =>
        /\ \A ka \in CreateIndexes(a) : \E kb \in CreateIndexes(b) : kb < ka
        /\ pc = "done" => CreateIndexes(a) # {} /\ CreateIndexes(b) # {}

\* A finished run on a chain of references a -> b -> c declared against the
\* key order: a is the first key and its create artifact the last of the three
C1_Witness ==
  /\ pc = "done"
  /\ Acyclic
  /\ \E a, b, c \in ObjectNames :
       /\ References(a, b) /\ References(b, c)
       /\ KeyIndex(a) < KeyIndex(b) /\ KeyIndex(b) < KeyIndex(c)
       /\ \E ka \in CreateIndexes(a), kb \in CreateIndexes(b), kc \in CreateIndexes(c) :
            kc < kb /\ kb < ka

\* The decimal digits a text starts with: how many there are
LeadingDigits(text) ==
  CHOOSE n \in 0..Len(text) :
    /\ \A i \in 1..n : Includes(DigitChars, text[i])
    /\ n < Len(text) => ~ Includes(DigitChars, text[n + 1])

\* The number a sequence of decimal digits denotes
RECURSIVE ReadNumber(_)
ReadNumber(digits) ==
  IF digits = <<>> THEN 0
  ELSE ReadNumber(SubSeq(digits, 1, Len(digits) - 1)) * 10
         + (CHOOSE d \in 0..9 : DigitChars[d + 1] = digits[Len(digits)])

\* The number of decimal digits of n
RECURSIVE DigitCount(_)
DigitCount(n) == IF n < 10 THEN 1 ELSE 1 + DigitCount(n \div 10)

\* C2: the artifact at position i (from 0) of the returned list has version
\* startVersion + i, over create and pivot artifacts together, and its
\* fileName is the version left-padded with zeros to versionPadding digits,
\* then "_", the artifact's name and ".sql".
C2_Versions ==
  \A i \in 1..Len(migrations) :
    LET m == migrations[i]
        n == LeadingDigits(m.fileName)
        wide == DigitCount(m.version)
        padding == OrElse(options.versionPadding, 4)
    IN  /\ m.version = OrElse(options.startVersion, 1) + (i - 1)
        /\ \A j \in 1..Len(migrations) : j < i => migrations[j].version < m.version
        /\ n = IF wide > padding THEN wide ELSE padding
        /\ ReadNumber(SubSeq(m.fileName, 1, n)) = m.version
        /\ SubSeq(m.fileName, n + 1, Len(m.fileName)) = <<"_">> \o m.name \o <<".sql">>

\* A finished run from startVersion 98 with versionPadding 2: after two
\* create artifacts a pivot artifact has version 100, three digits wide
C2_Witness ==
  /\ pc = "done"
  /\ options.startVersion = Some(98) /\ options.versionPadding = Some(2)
  /\ \E i \in 1..Len(migrations) :
       /\ migrations[i].type = "pivot"
       /\ migrations[i].version = 100
       /\ LeadingDigits(migrations[i].fileName) = 3
  /\ \E i \in 1..Len(migrations) :
       migrations[i].type = "create" /\ LeadingDigits(migrations[i].fileName) = 2

\* The dialect of the call
CallDialect == OrElse(options.dialect, "mysql")

\* The incompatible properties and indexes of the object-kind entities under
\* the dialect of the call: Point under sqlite; gin and gist indexes under
\* mysql and sqlite; fulltext and spatial indexes under sqlite
Violations ==
  UNION {
    {[schema |-> schemas[i].name, what |-> "property",
      name |-> PropsOf(schemas[i])[j].name, type |-> PropsOf(schemas[i])[j].type] :
       j \in {k \in 1..Len(PropsOf(schemas[i])) :
                PropsOf(schemas[i])[k].type = "Point" /\ CallDialect = "sqlite"}}
    \cup
    {[schema |-> schemas[i].name, what |-> "index",
      name |-> IF IsDefined(OrElse(schemas[i].options.indexes, <<>>)[j].name)
                 THEN OrElse(schemas[i].options.indexes, <<>>)[j].name[1]
                 ELSE OrElse(schemas[i].options.indexes, <<>>)[j].columns[1],
      type |-> OrElse(schemas[i].options.indexes, <<>>)[j].type[1]] :
       j \in {k \in 1..Len(OrElse(schemas[i].options.indexes, <<>>)) :
                LET type == OrElse(schemas[i].options.indexes, <<>>)[k].type
                IN  \/ type \in {Some("gin"), Some("gist")}
                       /\ CallDialect \in {"mysql", "sqlite"}
                    \/ type \in {Some("fulltext"), Some("spatial")}
                       /\ CallDialect = "sqlite"}} :
    i \in {k \in 1..Len(schemas) : schemas[k].kind # Some("enum")}}

\* C3: when an object-kind entity has a property type or an index type the
\* dialect does not support, the call throws: no table has been built by
\* schemaToTable and no artifact appended, in no state of the call.
C3_FailFast ==
  (Violations # {} /\ pc # "ready") =>
    /\ pc = "thrown"
    /\ IsDefined(thrown)
    /\ migrations = <<>>
    /\ built = <<>>

\* The call has thrown on a collection of two object-kind entities of which
\* only the last has an incompatible index
C3_Witness ==
  /\ pc = "thrown"
  /\ Len(schemas) = 2
  /\ schemas[1].kind = Some("object") /\ schemas[2].kind = Some("object")
  /\ \A v \in Violations : v.schema = schemas[2].name
  /\ \E v \in Violations : v.what = "index"
  /\ migrations = <<>>

\* text contains the tokens of part, one after the other
ContainsSeq(text, part) ==
  \E i \in 0..(Len(text) - Len(part)) : SubSeq(text, i + 1, i + Len(part)) = part

\* The paragraphs of a text: its pieces between the tokens "\n\n"
RECURSIVE Paragraphs(_)
Paragraphs(text) ==
  IF ~ Includes(text, "\n\n") THEN <<text>>
  ELSE LET cut == CHOOSE i \in 1..Len(text) :
                    text[i] = "\n\n" /\ \A j \in 1..(i - 1) : text[j] # "\n\n"
       IN  <<SubSeq(text, 1, cut - 1)>> \o Paragraphs(SubSeq(text, cut + 1, Len(text)))

\* The numbered entries of the message thrown: the paragraphs between the
\* heading and the closing advice
Entries == LET ps == Paragraphs(thrown[1]) IN SubSeq(ps, 2, Len(ps) - 1)

\* The entry names the schema, the property or index, the type and the dialect
Names(entry, v) ==
  /\ ContainsSeq(entry, v.schema)
  /\ ContainsSeq(entry, v.name)
  /\ Includes(entry, v.type)
  /\ Includes(entry, CallDialect)
  /\ Includes(entry, IF v.what = "property" THEN "\", property \"" ELSE "\", index \"")

\* C4: the Error thrown has one entry for every incompatible property and
\* index of the object-kind entities, numbered 1..n; each names the schema,
\* the property or index, the type and the dialect.  Without a violation the
\* validator returns normally.
C4_AggregatedError ==
  /\ (Violations = {} /\ pc # "ready") => (pc # "thrown" /\ thrown = None)
  /\ pc = "thrown" =>
       /\ Len(Entries) = Cardinality(Violations)
       /\ \A k \in 1..Len(Entries) :
            /\ LeadingDigits(Entries[k]) >= 1
            /\ ReadNumber(SubSeq(Entries[k], 1, LeadingDigits(Entries[k]))) = k
            /\ Entries[k][LeadingDigits(Entries[k]) + 1] = ". "
       /\ \A v \in Violations :
            Cardinality({k \in 1..Len(Entries) : Names(Entries[k], v)}) = 1

\* The Error thrown lists an incompatible property and an incompatible index
C4_Witness ==
  /\ pc = "thrown"
  /\ \E v, w \in Violations : v.what = "property" /\ w.what = "index"
  /\ Len(Entries) = 2

\* The names of all entities of the collection
SchemaNames == {schemas[i].name : i \in 1..Len(schemas)}

\* Entity a declares an association of the relation to target b without joinTable
Declares(a, relation, b) ==
  \E i \in 1..Len(PropsOf(schemas[KeyIndex(a)])) :
    LET property == PropsOf(schemas[KeyIndex(a)])[i]
    IN  /\ property.type = "Association"
        /\ property.relation = Some(relation)
        /\ property.target = Some(b)
        /\ property.joinTable = None

\* The positions in the returned list of the pivot artifacts of the table
PivotIndexes(table) ==
  {k \in 1..Len(migrations) :
     migrations[k].type = "pivot" /\ migrations[k].tables = <<table>>}

\* C5: no two pivot artifacts of the returned list have the same table name;
\* a ManyToMany declared on both sides yields exactly one pivot artifact, and
\* so does a MorphToMany to one target declared by several owners.
C5_PivotsOnce ==
  /\ \A j, k \in 1..Len(migrations) :
       (j # k /\ migrations[j].type = "pivot" /\ migrations[k].type = "pivot")
         => migrations[j].tables # migrations[k].tables
  /\ pc = "done" =>
       /\ \A a, b \in ObjectNames :
            (Declares(a, "ManyToMany", b) /\ Declares(b, "ManyToMany", a)) =>
              Cardinality(PivotIndexes(PivotName(None, SortPair(toTableName(a),
                                                                toTableName(b))))) = 1
       /\ \A t \in SchemaNames :
            (\E a \in ObjectNames : Declares(a, "MorphToMany", t)) =>
              Cardinality(PivotIndexes(MorphName(t))) = 1

\* A finished run in which two entities declare a ManyToMany to each other:
\* the pivot table was built from both sides, and one artifact was emitted
C5_Witness ==
  /\ pc = "done"
  /\ \E a, b \in ObjectNames :
       /\ a # b
       /\ Declares(a, "ManyToMany", b) /\ Declares(b, "ManyToMany", a)
       /\ \E j, k \in 1..Len(built) :
            /\ built[j].source = a /\ built[k].source = b
            /\ built[j].via = "generatePivotTable" /\ built[k].via = "generatePivotTable"
            /\ built[j].table.name = built[k].table.name
            /\ Cardinality(PivotIndexes(built[j].table.name)) = 1

\* A finished run in which two owners declare a MorphToMany to one target:
\* one artifact was emitted for the morph pivot table
C5_MorphCase ==
  /\ pc = "done"
  /\ \E a, b \in ObjectNames, t \in SchemaNames :
       /\ a # b
       /\ Declares(a, "MorphToMany", t) /\ Declares(b, "MorphToMany", t)
       /\ Cardinality(PivotIndexes(MorphName(t))) = 1

\* C6: in the returned list every create artifact is before every pivot
\* artifact, and no artifact has another type than create or pivot.
C6_CreatesBeforePivots ==
  /\ \A k \in 1..Len(migrations) : migrations[k].type \in {"create", "pivot"}
  /\ \A j, k \in 1..Len(migrations) :
       (migrations[j].type = "create" /\ migrations[k].type = "pivot") => j < k

\* A finished run that returned two create artifacts and two pivot artifacts
C6_Witness ==
  /\ pc = "done"
  /\ Cardinality({k \in 1..Len(migrations) : migrations[k].type = "create"}) = 2
  /\ Cardinality({k \in 1..Len(migrations) : migrations[k].type = "pivot"}) = 2

\* C7: a further call with the same collection and the same options returns
\* the same list of artifacts as the call before it (or throws the same
\* Error).
C7_Deterministic ==
  (pc \in {"done", "thrown"} /\ IsDefined(previous)) => Outcome = previous[1]

\* A second call has returned create and pivot artifacts
C7_Witness ==
  /\ pc = "done"
  /\ IsDefined(previous)
  /\ \E i, j \in 1..Len(migrations) :
       migrations[i].type = "create" /\ migrations[j].type = "pivot"
  /\ createdPivots # {}

\* C8: the returned list has exactly one create artifact for every entity
\* whose kind is not enum and none for an enum-kind entity; the validator
\* ignores the enum-kind entities (Violations counts none of theirs).
C8_EnumsSkipped ==
  /\ \A i \in 1..Len(schemas) :
       /\ Cardinality(CreateIndexes(schemas[i].name)) <= 1
       /\ schemas[i].kind = Some("enum") => CreateIndexes(schemas[i].name) = {}
       /\ (pc \in {"pivot", "done"} /\ schemas[i].kind # Some("enum"))
            => Cardinality(CreateIndexes(schemas[i].name)) = 1
  /\ pc \in {"pivot", "done"} =>
       Cardinality({k \in 1..Len(migrations) : migrations[k].type = "create"})
         = Cardinality(ObjectNames)
  /\ (Violations = {} /\ pc # "ready") => pc # "thrown"

\* A finished run under sqlite on an object-kind entity and an enum-kind
\* entity that has a Point property: one create artifact, nothing thrown
C8_Witness ==
  /\ pc = "done"
  /\ CallDialect = "sqlite"
  /\ \E i, j \in 1..Len(schemas) :
       /\ schemas[i].kind = Some("enum")
       /\ \E k \in 1..Len(PropsOf(schemas[i])) : PropsOf(schemas[i])[k].type = "Point"
       /\ schemas[j].kind = Some("object")
  /\ Len(migrations) = 1

\* The number of columns of the table flagged primaryKey
PrimaryKeyCount(table) ==
  Cardinality({i \in 1..Len(table.columns) : table.columns[i].primaryKey})

\* The entity named name has options.id === false
IdDisabled(name) == schemas[KeyIndex(name)].options.id = Some(FALSE)

\* C9, as stated: every table built during a run, by schemaToTable or by a
\* pivot builder, has exactly one column flagged primaryKey, or none when it
\* is built from an entity with options.id === false.
C9_OnePrimaryKeyEverywhere ==
  \A k \in 1..Len(built) :
    PrimaryKeyCount(built[k].table) = IF IdDisabled(built[k].source) THEN 0 ELSE 1

\* C9, amended: a table built by schemaToTable has exactly one column flagged
\* primaryKey, or none when its entity has options.id === false; a table built
\* by generatePivotTable or generateMorphPivotTable has none.
C9_PrimaryKeys ==
  \A k \in 1..Len(built) :
    PrimaryKeyCount(built[k].table) =
      IF built[k].via = "schemaToTable" /\ ~ IdDisabled(built[k].source) THEN 1 ELSE 0

\* A finished run that built the table of an entity with options.id === false
\* (no primary key), the table of another entity (one), and a pivot table (none)
C9_Witness ==
  /\ pc = "done"
  /\ \E i, j, k \in 1..Len(built) :
       /\ built[i].via = "schemaToTable" /\ IdDisabled(built[i].source)
       /\ PrimaryKeyCount(built[i].table) = 0
       /\ built[j].via = "schemaToTable" /\ ~ IdDisabled(built[j].source)
       /\ PrimaryKeyCount(built[j].table) = 1
       /\ built[k].via = "generatePivotTable"
       /\ PrimaryKeyCount(built[k].table) = 0

\* The position of the first token CREATE TABLE of a content
CreateTableAt(content) ==
  CHOOSE i \in 1..Len(content) :
    content[i] = "CREATE TABLE " /\ \A j \in 1..(i - 1) : content[j] # "CREATE TABLE "

\* C10, as stated: under postgresql, the content of every artifact whose table
\* has a column typed by an enum (the type name ends in _enum) has the
\* statement CREATE TYPE <name> AS ENUM ( for that name before CREATE TABLE.
C10_EnumTypesCreated ==
  CallDialect = "postgresql" =>
    \A m \in 1..Len(migrations), k \in 1..Len(built) :
      migrations[m].tables = <<built[k].table.name>> =>
        \A c \in 1..Len(built[k].table.columns) :
          endsWith(built[k].table.columns[c].type, NamePiece.uenum) =>
            ContainsSeq(SubSeq(migrations[m].content, 1,
                               CreateTableAt(migrations[m].content) - 1),
                        <<"CREATE TYPE ">> \o built[k].table.columns[c].type
                          \o <<" AS ENUM (">>)

\* The entity named name has the default identity: options.id is not false
\* and the id type is BigInt, declared or by default
DefaultIdentity(name) ==
  /\ ~ IdDisabled(name)
  /\ schemas[KeyIndex(name)].options.idType \in {None, Some("BigInt")}

\* line is one whole line of the column list of CREATE TABLE in content
IsColumnLine(content, line) ==
  \/ ContainsSeq(content, <<"\n", "  ">> \o line \o <<",", "\n">>)
  \/ ContainsSeq(content, <<"\n", "  ">> \o line \o <<"\n", ")">>)

\* The created tables of entities with the default identity, under mysql
MysqlIdTables ==
  {k \in 1..Len(built) :
     /\ CallDialect = "mysql"
     /\ built[k].via = "schemaToTable"
     /\ DefaultIdentity(built[k].source)
     /\ k <= Len(migrations)}

\* C11, as stated: under mysql the primary-key column of an entity with the
\* default identity is rendered as the line
\* <backtick>id<backtick> BIGINT UNSIGNED NOT NULL AUTO_INCREMENT PRIMARY KEY.
C11_IdColumnNotNull ==
  \A k \in MysqlIdTables :
    IsColumnLine(migrations[k].content,
                 <<Backtick>> \o NamePiece.id
                   \o <<Backtick, " ", "BIGINT UNSIGNED", " ", "NOT NULL", " ",
                        "AUTO_INCREMENT", " ", "PRIMARY KEY">>)

\* C11, amended: under mysql the primary-key column of an entity with the
\* default identity is rendered as the line
\* <backtick>id<backtick> BIGINT UNSIGNED AUTO_INCREMENT PRIMARY KEY: the
\* type, AUTO_INCREMENT, PRIMARY KEY, and no nullability clause.
C11_IdColumn ==
  \A k \in MysqlIdTables :
    /\ migrations[k].tables = <<built[k].table.name>>
    /\ IsColumnLine(migrations[k].content,
                    <<Backtick>> \o NamePiece.id
                      \o <<Backtick, " ", "BIGINT UNSIGNED", " ",
                           "AUTO_INCREMENT", " ", "PRIMARY KEY">>)
    /\ \A i \in 1..(Len(migrations[k].content) - 2) :
         migrations[k].content[i] = "BIGINT UNSIGNED"
           /\ migrations[k].content[i + 2] = "NOT NULL"
         => SubSeq(migrations[k].content, i - 5, i - 2)
              # <<Backtick>> \o NamePiece.id \o <<Backtick>>

\* A finished mysql run that created the table of an entity with the default
\* identity, its id column the first of several
C11_Witness ==
  /\ pc = "done"
  /\ MysqlIdTables # {}
  /\ \E k \in MysqlIdTables :
       /\ Len(built[k].table.columns) > 1
       /\ built[k].table.columns[1].name = NamePiece.id
       /\ built[k].table.columns[1].primaryKey

\* The two table names in lexicographic order, joined by an underscore
SortedJoin(ta, tb) ==
  IF StrLess(ta, tb) THEN ta \o <<"_">> \o tb ELSE tb \o <<"_">> \o ta

\* table is the pivot table of a ManyToMany from entity a to entity b: its
\* name, two non-nullable columns, two foreign keys to column id of the two
\* sides, one composite unique index and two single-column plain indexes
IsPivotOf(table, a, b) ==
  LET ca == toSnakeCase(a) \o <<"_","i","d">>
      cb == toSnakeCase(b) \o <<"_","i","d">>
  IN  /\ table.name = SortedJoin(toTableName(a), toTableName(b))
      /\ Len(table.columns) = 2
      /\ {table.columns[i].name : i \in 1..2} = {ca, cb}
      /\ \A i \in 1..2 : ~ table.columns[i].nullable
      /\ Len(table.foreignKeys) = 2
      /\ {<<table.foreignKeys[i].columns, table.foreignKeys[i].referencesTable,
            table.foreignKeys[i].referencesColumns>> : i \in 1..2}
           = {<< <<ca>>, toTableName(a), << <<"i","d">> >> >>,
              << <<cb>>, toTableName(b), << <<"i","d">> >> >>}
      /\ Len(table.indexes) = 3
      /\ Cardinality({i \in 1..3 : table.indexes[i].unique}) = 1
      /\ \A i \in 1..3 :
           IF table.indexes[i].unique
             THEN table.indexes[i].columns \in {<<ca, cb>>, <<cb, ca>>}
             ELSE table.indexes[i].columns \in {<<ca>>, <<cb>>}
      /\ {table.indexes[i].columns : i \in 1..3} \ {<<ca, cb>>, <<cb, ca>>}
           = {<<ca>>, <<cb>>}

\* C12: a ManyToMany without joinTable between two distinct entities of the
\* collection gives a pivot table named after the two table names in
\* lexicographic order, whichever side declares it, with two non-nullable
\* foreign key columns, two foreign keys to column id of the two tables, one
\* composite unique index and two single-column non-unique indexes.
C12_PivotTable ==
  pc = "done" =>
    \A a, b \in SchemaNames :
      (a # b /\ Declares(a, "ManyToMany", b)) =>
        /\ \E k \in 1..Len(built) :
             /\ built[k].via = "generatePivotTable"
             /\ built[k].source = a
             /\ IsPivotOf(built[k].table, a, b)
        /\ \A k \in 1..Len(built) :
             (built[k].via = "generatePivotTable"
                /\ built[k].source \in {a, b}
                /\ {built[k].table.foreignKeys[i].referencesTable : i \in 1..2}
                     = {toTableName(a), toTableName(b)})
             => built[k].table.name = SortedJoin(toTableName(a), toTableName(b))

\* A finished run in which the entity whose table name is the greater one
\* declares the ManyToMany: the pivot is named target table first
C12_Witness ==
  /\ pc = "done"
  /\ \E a, b \in SchemaNames :
       /\ a # b
       /\ Declares(a, "ManyToMany", b)
       /\ StrLess(toTableName(b), toTableName(a))
       /\ \E k \in 1..Len(built) :
            /\ built[k].via = "generatePivotTable" /\ built[k].source = a
            /\ built[k].table.name = toTableName(b) \o <<"_">> \o toTableName(a)

\* The object-kind entities that declare a MorphToMany to target t
MorphOwners(t) == {a \in ObjectNames : Declares(a, "MorphToMany", t)}

\* snake(t) without a final s, followed by ables
ExpectedMorphName(t) ==
  LET snake == toSnakeCase(t)
  IN  (IF snake[Len(snake)] = "s" THEN SubSeq(snake, 1, Len(snake) - 1) ELSE snake)
        \o <<"a","b","l","e","s">>

\* The texts ENUM('v1', 'v2', ...) over the values of the set O, in any order
EnumTextsOver(O) ==
  {<<"ENUM(">>
     \o Join([i \in 1..Len(q) |-> <<"'">> \o q[i] \o <<"'">>], <<", ">>)
     \o <<")">> :
   q \in {p \in InjectiveSeqs(O, Cardinality(O)) : Len(p) = Cardinality(O)}}

\* Some entity of the set O has idType Uuid
SomeUuid(O) == \E a \in O : schemas[KeyIndex(a)].options.idType = Some("Uuid")

\* table is the morph pivot of target t: its name, the values of its type
\* column (visible in the inline ENUM of mysql; a named type under postgresql,
\* TEXT under sqlite) and the type of its morph id column
IsMorphPivotOf(table, t) ==
  /\ table.name = ExpectedMorphName(t)
  /\ Len(table.columns) = 3
  /\ CASE CallDialect = "mysql" -> table.columns[2].type \in EnumTextsOver(MorphOwners(t))
       [] CallDialect = "postgresql" ->
            table.columns[2].type = table.columns[2].name \o <<"_","e","n","u","m">>
       [] CallDialect = "sqlite" -> table.columns[2].type = <<"TEXT">>
  /\ table.columns[3].type =
       IF SomeUuid(MorphOwners(t))
         THEN (CASE CallDialect = "mysql" -> <<"CHAR(36)">>
                 [] CallDialect = "postgresql" -> <<"UUID">>
                 [] CallDialect = "sqlite" -> <<"TEXT">>)
         ELSE (CASE CallDialect = "mysql" -> <<"BIGINT UNSIGNED">>
                 [] CallDialect = "postgresql" -> <<"BIGINT">>
                 [] CallDialect = "sqlite" -> <<"INTEGER">>)

\* C13: the MorphToMany properties to one target t of the collection, declared
\* without joinTable by the owners O, give one pivot artifact; the table is
\* named snake(t) without a final s followed by ables, its type column is the
\* enum over exactly O, its morph id column is UUID-capable exactly when some
\* owner has idType Uuid, and this holds for the table built from every
\* owner, whichever is processed first.
C13_MorphPivot ==
  pc = "done" =>
    \A t \in SchemaNames :
      MorphOwners(t) # {} =>
        /\ Cardinality(PivotIndexes(ExpectedMorphName(t))) = 1
        /\ \A a \in MorphOwners(t) :
             \E k \in 1..Len(built) :
               /\ built[k].via = "generateMorphPivotTable"
               /\ built[k].source = a
               /\ IsMorphPivotOf(built[k].table, t)
        /\ \A k \in 1..Len(built) :
             (built[k].via = "generateMorphPivotTable"
                /\ built[k].table.name = ExpectedMorphName(t))
             => IsMorphPivotOf(built[k].table, t)

\* A finished mysql run in which two owners declare a MorphToMany to a target
\* whose name ends in s, and only the owner processed second has idType Uuid
C13_Witness ==
  /\ pc = "done"
  /\ CallDialect = "mysql"
  /\ \E t \in SchemaNames, j, k \in 1..Len(built) :
       /\ toSnakeCase(t)[Len(toSnakeCase(t))] = "s"
       /\ Cardinality(MorphOwners(t)) = 2
       /\ j < k
       /\ built[j].via = "generateMorphPivotTable"
       /\ built[k].via = "generateMorphPivotTable"
       /\ built[j].source # built[k].source
       /\ {built[j].source, built[k].source} = MorphOwners(t)
       /\ ~ SomeUuid({built[j].source})
       /\ SomeUuid({built[k].source})
       /\ built[j].table.columns[3].type = <<"CHAR(36)">>

\* The tokens of the line of content that renders the column named name: from
\* its quoted name at the start of a line to the end of that line
ColumnLine(content, name) ==
  LET quoted == quoteIdentifier(name, CallDialect)
      head == <<"\n", "  ">> \o quoted \o <<" ">>
      at == CHOOSE i \in 0..(Len(content) - Len(head)) :
              SubSeq(content, i + 1, i + Len(head)) = head
      from == at + Len(head) + 1
      to == CHOOSE j \in from..Len(content) :
              content[j] = "\n" /\ \A m \in from..(j - 1) : content[m] # "\n"
  IN  SubSeq(content, from, to - 1)

\* The created tables and, of each, the properties that propertyToColumn
\* turns into a column: neither associations nor Coordinates
ColumnProperties ==
  {<<k, i>> \in (1..Len(built)) \X (1..MaxProps + 1) :
     /\ built[k].via = "schemaToTable"
     /\ k <= Len(migrations)
     /\ i <= Len(PropsOf(schemas[KeyIndex(built[k].source)]))
     /\ PropsOf(schemas[KeyIndex(built[k].source)])[i].type
          \notin {"Association", "Coordinates"}}

\* The property i of the entity of the created table k
PropertyOf(k, i) == PropsOf(schemas[KeyIndex(built[k].source)])[i]

\* The indexes of table k named idx_<table>_<column>_unique for the column
UniqueIndexesOf(k, column) ==
  {x \in 1..Len(built[k].table.indexes) :
     built[k].table.indexes[x].name
       = <<"i","d","x","_">> \o built[k].table.name \o <<"_">> \o column
           \o <<"_","u","n","i","q","u","e">>}

\* A property declared unique has a column rendered with UNIQUE and a unique
\* index idx_<table>_<column>_unique over that column alone
UniqueRendered(k, i) ==
  LET column == toColumnName(PropertyOf(k, i).name)
  IN  /\ Includes(ColumnLine(migrations[k].content, column), "UNIQUE")
      /\ \E x \in UniqueIndexesOf(k, column) :
           /\ built[k].table.indexes[x].unique
           /\ built[k].table.indexes[x].columns = <<column>>

DropCalls == IF dropped = None THEN {} ELSE {dropped[1]}

\* The argument is the name of an entity of the collection
IsEntityName(tableName) == \E i \in 1..Len(schemas) : schemas[i].name = tableName

\* The argument is the table name of an artifact of the run
IsArtifactTable(tableName) ==
  \E k \in 1..Len(migrations) : migrations[k].tables[1] = tableName

\* C15: generateDropMigration called with the name of an entity E drops the
\* table toTableName(E), the table the create artifact built for E carries;
\* called with the table name of an artifact it drops that table itself.
C15_DropsEntityTable ==
  \A d \in DropCalls :
    /\ IsEntityName(d.tableName) =>
         /\ d.migration.tables = <<toTableName(d.tableName)>>
         /\ \E k \in 1..Len(migrations) :
              /\ migrations[k].type = "create"
              /\ built[k].source = d.tableName
              /\ migrations[k].tables = d.migration.tables
    /\ IsArtifactTable(d.tableName) => d.migration.tables = <<d.tableName>>


\* ---- C16 ----
\* The last line of a text: what follows its last line break
LastLine(text) ==
  LET breaks == {i \in 1..Len(text) : text[i] = "\n"}
  IN  SubSeq(text, (IF breaks = {} THEN 0
                    ELSE CHOOSE i \in breaks : \A j \in breaks : j <= i) + 1,
             Len(text))

\* name between the identifier quotes of the dialect of the call
Quoted(name) ==
  IF CallDialect = "mysql" THEN <<Backtick>> \o name \o <<Backtick>>
  ELSE <<"\"">> \o name \o <<"\"">>

\* C16: the statement of a drop artifact is DROP TABLE IF EXISTS and the
\* quoted table, then " CASCADE" exactly when the dialect is postgresql, then
\* ";".  The artifact has type "drop", the version of the options or else
\* startVersion, and the fileName <padded version>_drop_<table>.sql.
C16_DropArtifact ==
  \A d \in DropCalls :
    LET m == d.migration
        table == m.tables[1]
        n == LeadingDigits(m.fileName)
        wide == DigitCount(m.version)
        padding == OrElse(options.versionPadding, 4)
    IN  /\ Len(m.tables) = 1
        /\ LastLine(m.content) =
             <<"DROP TABLE ", "IF EXISTS ">> \o Quoted(table)
               \o (IF CallDialect = "postgresql" THEN <<" CASCADE">> ELSE <<>>)
               \o <<";">>
        /\ m.type = "drop"
        /\ m.version = OrElse(d.version, OrElse(options.startVersion, 1))
        /\ n = IF wide > padding THEN wide ELSE padding
        /\ ReadNumber(SubSeq(m.fileName, 1, n)) = m.version
        /\ SubSeq(m.fileName, n + 1, Len(m.fileName)) =
             <<"_">> \o NamePiece.drop \o table \o <<".sql">>

\* A drop artifact of a postgresql call with startVersion 9 and versionPadding
\* 1, made with version 12: the statement ends in CASCADE and the fileName
\* begins with the two digits of the version
C16_Witness ==
  \E d \in DropCalls :
    /\ CallDialect = "postgresql"
    /\ options.startVersion = Some(9) /\ options.versionPadding = Some(1)
    /\ d.version = Some(12)
    /\ d.migration.version = 12
    /\ LeadingDigits(d.migration.fileName) = 2
    /\ endsWith(d.migration.content, <<" CASCADE", ";">>)


\* ---- C17 ----
\* The custom indexes of entity i
IndexesOf(i) == OrElse(schemas[i].options.indexes, <<>>)

\* Entity i has a property of the type
HasPropertyOfType(i, type) ==
  \E j \in 1..Len(PropsOf(schemas[i])) : PropsOf(schemas[i])[j].type = type

\* Entity i has a custom index of one of the types
HasIndexOfType(i, types) ==
  \E j \in 1..Len(IndexesOf(i)) :
    IsDefined(IndexesOf(i)[j].type) /\ IndexesOf(i)[j].type[1] \in types

\* Some object-kind entity has a Point property under sqlite, a gin or gist
\* index under mysql or sqlite, or a fulltext or spatial index under sqlite
Incompatible ==
  \E i \in 1..Len(schemas) :
    /\ schemas[i].kind = Some("object")
    /\ \/ HasPropertyOfType(i, "Point") /\ CallDialect = "sqlite"
       \/ HasIndexOfType(i, {"gin", "gist"}) /\ CallDialect \in {"mysql", "sqlite"}
       \/ HasIndexOfType(i, {"fulltext", "spatial"}) /\ CallDialect = "sqlite"

\* C17: the call throws exactly when some object-kind entity has a Point
\* property under sqlite, a gin or gist index under mysql or sqlite, or a
\* fulltext or spatial index under sqlite; on every other collection the call
\* goes on to build the tables.
C17_ThrowsIff ==
  pc # "ready" =>
    /\ (pc = "thrown" /\ IsDefined(thrown)) <=> Incompatible
    /\ ~ Incompatible => (pc \in {"create", "pivot", "done"} /\ thrown = None)

\* A call under mysql that has thrown: one object-kind entity has a gin
\* index, the other a fulltext index, which alone mysql accepts
C17_Witness ==
  /\ pc = "thrown"
  /\ CallDialect = "mysql"
  /\ \E i, j \in 1..Len(schemas) :
       /\ i # j
       /\ schemas[i].kind = Some("object") /\ schemas[j].kind = Some("object")
       /\ HasIndexOfType(i, {"gin"})
       /\ HasIndexOfType(j, {"fulltext"}) /\ ~ HasIndexOfType(j, {"gin", "gist"})


\* ---- C18 ----
\* The first token of the line of text that token i stands on
LineStart(text, i) ==
  LET starts == {j \in 1..i : j = 1 \/ text[j - 1] = "\n"}
  IN  text[CHOOSE j \in starts : \A k \in starts : k <= j]

\* C18: in every create and pivot artifact the text DROP TABLE stands only on
\* a line that begins with the comment marker "-- "; an artifact generated
\* with generateDown false has no DROP TABLE text.
C18_DropOnlyInComments ==
  \A k \in 1..Len(migrations) :
    LET content == migrations[k].content
    IN  /\ migrations[k].type \in {"create", "pivot"}
        /\ \A i \in 1..Len(content) :
             content[i] = "DROP TABLE " =>
               /\ LineStart(content, i) = "-- "
               /\ OrElse(options.generateDown, TRUE)


\* ---- C19 ----
\* The tables schemaToTable built, by their position in built
CreatedTables == {k \in 1..Len(built) : built[k].via = "schemaToTable"}

\* The positions of the ManyToOne and OneToOne properties with a target of
\* the entity of the created table k
OwningProperties(k) ==
  {i \in 1..Len(PropsOf(schemas[KeyIndex(built[k].source)])) :
     /\ PropertyOf(k, i).type = "Association"
     /\ PropertyOf(k, i).relation \in {Some("ManyToOne"), Some("OneToOne")}
     /\ IsDefined(PropertyOf(k, i).target)}

\* The identity kind the entity named target declares; BigInt when it
\* declares none or is not in the collection
IdentityKind(target) ==
  IF target \in SchemaNames
    THEN OrElse(schemas[KeyIndex(target)].options.idType, "BigInt")
    ELSE "BigInt"

\* The positions in the sequence of records rows of those named name
Named(rows, name) == {x \in 1..Len(rows) : rows[x].name = name}

\* The table k has, for its owning property i, one column <snake(p)>_id of the
\* foreign-key type of the target's identity kind, one foreign key
\* fk_<table>_<column> to the id of the target's table, and one non-unique
\* index idx_<table>_<column>
OwningSideBuilt(k, i, table, column) ==
  /\ Cardinality(Named(table.columns, column)) = 1
  /\ \A c \in Named(table.columns, column) :
       table.columns[c].type
         = getForeignKeyType(IdentityKind(PropertyOf(k, i).target[1]), CallDialect)
  /\ Cardinality(Named(table.foreignKeys,
                       <<"f","k","_">> \o table.name \o <<"_">> \o column)) = 1
  /\ \A f \in Named(table.foreignKeys,
                    <<"f","k","_">> \o table.name \o <<"_">> \o column) :
       /\ table.foreignKeys[f].columns = <<column>>
       /\ table.foreignKeys[f].referencesTable
            = toTableName(PropertyOf(k, i).target[1])
       /\ \A t \in CreatedTables :
            built[t].source = PropertyOf(k, i).target[1] =>
              built[t].table.name = table.foreignKeys[f].referencesTable
       /\ table.foreignKeys[f].referencesColumns = << <<"i","d">> >>
       /\ table.foreignKeys[f].onDelete = OrElse(PropertyOf(k, i).onDelete, "CASCADE")
       /\ table.foreignKeys[f].onUpdate = OrElse(PropertyOf(k, i).onUpdate, "CASCADE")
  /\ Cardinality(Named(table.indexes,
                       <<"i","d","x","_">> \o table.name \o <<"_">> \o column)) = 1
  /\ \A x \in Named(table.indexes,
                    <<"i","d","x","_">> \o table.name \o <<"_">> \o column) :
       /\ table.indexes[x].columns = <<column>>
       /\ ~ table.indexes[x].unique

\* C19: for every ManyToOne or OneToOne property p with a target T, the table
\* of the entity has exactly one column <snake(p)>_id of the foreign-key type
\* of T's identity kind (BigInt when T declares none), one foreign key
\* fk_<table>_<column> that references id of T's table with the declared
\* actions or CASCADE, and one non-unique index idx_<table>_<column>; the
\* table has no foreign key but these, so none for ManyToMany, MorphTo and
\* MorphToMany properties.
C19_OwningSide ==
  \A k \in CreatedTables :
    /\ \A i \in OwningProperties(k) :
         OwningSideBuilt(k, i, built[k].table,
                         toColumnName(PropertyOf(k, i).name) \o <<"_","i","d">>)
    /\ Len(built[k].table.foreignKeys) = Cardinality(OwningProperties(k))

\* A finished mysql run on an entity of identity kind Uuid with a OneToOne
\* property parentUser to itself, without actions: the column parent_user_id
\* is a CHAR(36) and the foreign key cascades
C19_Witness ==
  /\ pc = "done"
  /\ CallDialect = "mysql"
  /\ \E k \in CreatedTables :
       /\ IdentityKind(built[k].source) = "Uuid"
       /\ \E i \in OwningProperties(k) :
            /\ PropertyOf(k, i).relation = Some("OneToOne")
            /\ PropertyOf(k, i).target = Some(built[k].source)
            /\ PropertyOf(k, i).onDelete = None
       /\ \E c \in Named(built[k].table.columns,
                          <<"p","a","r","e","n","t","_","u","s","e","r","_","i","d">>) :
            built[k].table.columns[c].type = <<"CHAR(36)">>
       /\ Len(built[k].table.foreignKeys) = 1
       /\ built[k].table.foreignKeys[1].onDelete = "CASCADE"

\* ---- C20 ----
\* The created tables and, of each, the Coordinates properties of its entity
CoordinatesProperties ==
  {<<k, i>> \in CreatedTables \X (1..MaxProps + 1) :
     /\ k <= Len(migrations)
     /\ i <= Len(PropsOf(schemas[KeyIndex(built[k].source)]))
     /\ PropertyOf(k, i).type = "Coordinates"}

\* Table k has exactly one column of the name; it has the type and the
\* nullable flag, and is rendered with them
OneColumn(k, name, type, nullable) ==
  /\ Cardinality(Named(built[k].table.columns, name)) = 1
  /\ \A c \in Named(built[k].table.columns, name) :
       /\ built[k].table.columns[c].type = type
       /\ built[k].table.columns[c].nullable = nullable
  /\ SubSeq(ColumnLine(migrations[k].content, name), 1, 3)
       = type \o <<" ", IF nullable THEN "NULL" ELSE "NOT NULL">>

\* C20: a Coordinates property named n gives the table the two columns
\* <snake(n)>_latitude and <snake(n)>_longitude and no column <snake(n)>;
\* their types are DECIMAL(10, 8) and DECIMAL(11, 8) under mysql and
\* postgresql, REAL and REAL under sqlite; both are nullable exactly when the
\* property is declared nullable.
C20_Coordinates ==
  \A <<k, i>> \in CoordinatesProperties :
    /\ Named(built[k].table.columns, toColumnName(PropertyOf(k, i).name)) = {}
    /\ OneColumn(k, toColumnName(PropertyOf(k, i).name)
                      \o <<"_","l","a","t","i","t","u","d","e">>,
                 IF CallDialect = "sqlite" THEN <<"REAL">> ELSE <<"DECIMAL(10, 8)">>,
                 PropertyOf(k, i).nullable = Some(TRUE))
    /\ OneColumn(k, toColumnName(PropertyOf(k, i).name)
                      \o <<"_","l","o","n","g","i","t","u","d","e">>,
                 IF CallDialect = "sqlite" THEN <<"REAL">> ELSE <<"DECIMAL(11, 8)">>,
                 PropertyOf(k, i).nullable = Some(TRUE))
    /\ Cardinality({c \in 1..Len(built[k].table.columns) :
                      \E p \in {<<"_","l","a","t","i","t","u","d","e">>,
                                <<"_","l","o","n","g","i","t","u","d","e">>} :
                        endsWith(built[k].table.columns[c].name, p)})
         = 2 * Cardinality({j \in 1..MaxProps + 1 : <<k, j>> \in CoordinatesProperties})

\* A finished postgresql run on an entity with a nullable Coordinates property
\* and a Coordinates property homeLocation without a nullable flag: the table
\* has the four columns, home_location_longitude a DECIMAL(11, 8) NOT NULL
C20_Witness ==
  /\ pc = "done"
  /\ CallDialect = "postgresql"
  /\ \E <<k, i>> \in CoordinatesProperties, <<l, j>> \in CoordinatesProperties :
       /\ k = l
       /\ PropertyOf(k, i).nullable = Some(TRUE)
       /\ PropertyOf(k, j).nullable = None
       /\ \E c \in Named(built[k].table.columns,
                         <<"h","o","m","e","_","l","o","c","a","t","i","o","n",
                           "_","l","o","n","g","i","t","u","d","e">>) :
            /\ built[k].table.columns[c].type = <<"DECIMAL(11, 8)">>
            /\ ~ built[k].table.columns[c].nullable


\* ---- C21 ----
\* The positions of the entity named name in the sorted schemas
SortedIndexes(name) ==
  {k \in 1..Len(sortedSchemas) : sortedSchemas[k].name = name}

\* C21: on every collection, with cycles, self-references, missing targets
\* and targets of kind enum among its ManyToOne/OneToOne associations, the
\* call passes topologicalSort without an error, and the sorted schemas are
\* the object-kind entities of the collection, each exactly once.
C21_SortPermutes ==
  pc # "ready" =>
    /\ pc # "thrown" /\ thrown = None
    /\ Len(sortedSchemas) = Cardinality(ObjectNames)
    /\ \A n \in ObjectNames :
         /\ Cardinality(SortedIndexes(n)) = 1
         /\ \A k \in SortedIndexes(n) : sortedSchemas[k] = schemas[KeyIndex(n)]

\* A sorted collection of three entities: two object-kind entities reference
\* each other and one of them references the entity of kind enum, too
C21_Witness ==
  /\ pc = "done"
  /\ Len(schemas) = 3
  /\ Len(sortedSchemas) = 2
  /\ \E a, b \in ObjectNames, e \in SchemaNames \ ObjectNames :
       /\ a # b
       /\ References(a, b) /\ References(b, a) /\ References(a, e)


\* ---- C22 ----
\* The tables of the pivot artifacts of a list of artifacts
PivotTablesOf(list) ==
  {list[k].tables[1] : k \in {j \in 1..Len(list) : list[j].type = "pivot"}}

\* C22: a call that follows other calls starts from nothing they left: its
\* artifacts are numbered from startVersion, the pivot names it holds are
\* those of the pivot artifacts it has pushed itself, and, once it is done, it
\* has emitted every pivot table the call before emitted and returns the
\* list that call returned.
C22_NoStateSurvives ==
  IsDefined(previous) =>
    /\ \A k \in 1..Len(migrations) :
         migrations[k].version = OrElse(options.startVersion, 1) + (k - 1)
    /\ pc \in {"create", "pivot", "done"} =>
         /\ version = OrElse(options.startVersion, 1) + Len(migrations)
         /\ createdPivots = PivotTablesOf(migrations)
    /\ pc = "done" =>
         /\ PivotTablesOf(previous[1].migrations) \subseteq PivotTablesOf(migrations)
         /\ migrations = previous[1].migrations
         /\ thrown = previous[1].thrown

\* A second call under startVersion 98 has returned: the call before it had
\* emitted a pivot table, and the second call emitted it again at the same
\* version, past 98
C22_Witness ==
  /\ pc = "done"
  /\ IsDefined(previous)
  /\ options.startVersion = Some(98)
  /\ PivotTablesOf(previous[1].migrations) # {}
  /\ \E k \in 1..Len(migrations) :
       /\ migrations[k].type = "pivot"
       /\ migrations[k].version > 98
       /\ previous[1].migrations[k] = migrations[k]


\* ---- C23 ----
\* The reference of a to b lies on a cycle of references: b reaches a
OnCycle(a, b) == a \in ReachedFrom({b}, Len(schemas))

\* C23: whether or not the references form cycles, for every reference of an
\* object-kind entity a to an object-kind entity b that lies on no cycle, the
\* create artifact of b precedes the create artifact of a.
C23_OffCycleOrder ==
  \A a, b \in ObjectNames :
    (References(a, b) /\ ~ OnCycle(a, b)) =>
      /\ \A ka \in CreateIndexes(a) : \E kb \in CreateIndexes(b) : kb < ka
      /\ pc = "done" => CreateIndexes(a) # {} /\ CreateIndexes(b) # {}

\* A finished run: b and c reference each other, a references b and is a
\* key before b; the create artifact of a is the last of the three
C23_Witness ==
  /\ pc = "done"
  /\ \E a, b, c \in ObjectNames :
       /\ a # b /\ b # c /\ a # c
       /\ References(b, c) /\ References(c, b)
       /\ References(a, b) /\ ~ OnCycle(a, b)
       /\ KeyIndex(a) < KeyIndex(b) /\ KeyIndex(a) < KeyIndex(c)
       /\ \A ka \in CreateIndexes(a), kb \in CreateIndexes(b), kc \in CreateIndexes(c) :
            kb < ka /\ kc < ka
       /\ CreateIndexes(a) # {}


\* ---- C24 ----
\* The calls of formatColumn made
ColumnCalls == IF applied = None THEN {} ELSE {applied[1]}

\* C24: the text formatColumn renders for a primary-key column has neither
\* NOT NULL nor NULL, whatever its nullable flag and the dialect; for another
\* column it has NOT NULL when nullable is false and NULL when it is true.
C24_NullClause ==
  \A c \in ColumnCalls :
    IF c.column.primaryKey
      THEN ~ Includes(c.text, "NOT NULL") /\ ~ Includes(c.text, "NULL")
      ELSE /\ Includes(c.text, "NOT NULL") <=> ~ c.column.nullable
           /\ Includes(c.text, "NULL") <=> c.column.nullable


\* ---- C25 ----
\* C25: the indexes of every table schemaToTable built have pairwise distinct
\* names: those of the unique constraints, of the unique properties, of the
\* foreign keys and the custom ones.
C25_IndexNamesDistinct ==
  \A k \in CreatedTables :
    \A x, y \in 1..Len(built[k].table.indexes) :
      x # y => built[k].table.indexes[x].name # built[k].table.indexes[y].name


\* ---- C26 ----
\* C26: every table a builder returned (schemaToTable, generatePivotTable,
\* generateMorphPivotTable) has pairwise distinct column names.
C26_ColumnNamesDistinct ==
  \A k \in 1..Len(built) :
    \A x, y \in 1..Len(built[k].table.columns) :
      x # y => built[k].table.columns[x].name # built[k].table.columns[y].name


\* ---- C27 ----
\* The positions in the returned list of the create artifacts of the table
CreatesOf(table) ==
  {j \in 1..Len(migrations) :
     migrations[j].type = "create" /\ migrations[j].tables = <<table>>}

\* C27: in the list a call returned, every foreign key of every table
\* references a table that a create artifact of the list creates, and the
\* create artifact of a table a pivot artifact references precedes that pivot
\* artifact; also when an association targets an enum-kind entity or a name
\* that is not in the collection.
C27_ReferentiallyClosed ==
  pc = "done" =>
    \A k \in 1..Len(built) :
      \A f \in 1..Len(built[k].table.foreignKeys) :
        /\ CreatesOf(built[k].table.foreignKeys[f].referencesTable) # {}
        /\ \A m \in 1..Len(migrations) :
             (migrations[m].type = "pivot"
              /\ migrations[m].tables = <<built[k].table.name>>) =>
               \E j \in CreatesOf(built[k].table.foreignKeys[f].referencesTable) : j < m


\* ---- C28 ----
\* C28: the statement rendered for an index of a created table has the
\* keyword UNIQUE before the index name exactly when the index is unique,
\* whatever the type of the index and the dialect.
C28_UniqueIndexRendered ==
  \A k \in CreatedTables :
    k <= Len(migrations) =>
      \A x \in 1..Len(built[k].table.indexes) :
        built[k].table.indexes[x].unique
          <=> ContainsSeq(migrations[k].content,
                          <<"UNIQUE INDEX", " ">>
                            \o Quoted(built[k].table.indexes[x].name) \o <<" ON ">>)


\* ---- C29 ----
\* The created tables and, of each, the properties with a string default that
\* propertyToColumn turns into a column
StringDefaults ==
  {<<k, i>> \in ColumnProperties :
     /\ IsDefined(PropertyOf(k, i).default)
     /\ PropertyOf(k, i).default[1].kind = "string"}

\* C29: a string default is rendered as the literal quoteString makes of it:
\* between single quotes, every single quote of the value doubled; so is every
\* value of an Enum column in the ENUM type of mysql.
C29_DefaultLiterals ==
  /\ \A <<k, i>> \in StringDefaults :
       ContainsSeq(ColumnLine(migrations[k].content, toColumnName(PropertyOf(k, i).name)),
                   <<"DEFAULT ">> \o quoteString(PropertyOf(k, i).default[1].s))
  /\ \A <<k, i>> \in ColumnProperties :
       (/\ CallDialect = "mysql"
        /\ PropertyOf(k, i).type = "Enum"
        /\ IsDefined(PropertyOf(k, i).enum)
        /\ PropertyOf(k, i).enum[1].isArray) =>
         \A v \in 1..Len(PropertyOf(k, i).enum[1].values) :
           ContainsSeq(ColumnLine(migrations[k].content,
                                  toColumnName(PropertyOf(k, i).name)),
                       quoteString(PropertyOf(k, i).enum[1].values[v]))


\* ---- C30 ----
\* The calls of generateMigrationFromSchema made
SchemaCalls == IF applied = None THEN {} ELSE {applied[1]}

\* The validator rejects the entity at position i of the collection under
\* the dialect of the call
Rejected(i) ==
  \/ HasPropertyOfType(i, "Point") /\ CallDialect = "sqlite"
  \/ HasIndexOfType(i, {"gin", "gist"}) /\ CallDialect \in {"mysql", "sqlite"}
  \/ HasIndexOfType(i, {"fulltext", "spatial"}) /\ CallDialect = "sqlite"

\* C30: generateMigrationFromSchema, called on an entity the validator
\* rejects under the dialect, throws as generateMigrations does and returns
\* no artifact.
C30_NoSilentDowngrade ==
  \A c \in SchemaCalls :
    Rejected(KeyIndex(c.schema)) =>
      /\ IsDefined(c.thrown)
      /\ c.migration = None

====
